---- MODULE Spec2Model ----
(***************************************************************************)
(* Copec EV charging backend: trip charging-stop planner                   *)
(* (handlers/ev-trips.js), charging cost tools (handlers/tools/pricing.js, *)
(* handlers/tools/routing.js) and the station scorer / recommender         *)
(* (ev optimizer handler).                                                 *)
(*                                                                         *)
(* Numbers.  The handlers compute in IEEE doubles; the model computes the  *)
(* same expressions exactly, over rationals kept as scaled integers:       *)
(*   - places lie on one meridian, GridKm kilometres per cell, where the   *)
(*     haversine distance is exactly the difference in latitude, so every  *)
(*     distance is a whole number of kilometres;                           *)
(*   - a battery percentage p of a vehicle with range R is kept as p * R   *)
(*     (the walk of findChargingStops) so that dist / R * 100 is exact.    *)
(***************************************************************************)
EXTENDS Integers, Sequences, FiniteSets, TLC

VARIABLES catalog, op, req, res

vars == <<catalog, op, req, res>>

----------------------------------------------------------------------------
(* Bounds of the model *)

\* the places of a trip are GridKm kilometres apart, MaxCell + 1 of them
GridKm == 50
MaxCell == 5
\* stations in an arbitrary catalog
MaxStations == 2

TripKms == {c * GridKm : c \in 0..MaxCell}

Abs(x) == IF x < 0 THEN -x ELSE x

Min(a, b) == IF a < b THEN a ELSE b

Max(a, b) == IF a > b THEN a ELSE b

\* Math.round of the rational n / d (d > 0): floor(n/d + 1/2)
RoundDiv(n, d) == (2 * n + d) \div (2 * d)

\* Math.floor of the rational n / d (d > 0)
FloorDiv(n, d) == n \div d

RECURSIVE SumSeq(_)
SumSeq(s) == IF s = <<>> THEN 0 ELSE Head(s) + SumSeq(Tail(s))

\* Exact rationals [n, d] in lowest terms, d > 0, for the amounts the
\* handlers compute as doubles
RECURSIVE Gcd(_, _)
Gcd(a, b) == IF b = 0 THEN a ELSE Gcd(b, a % b)

Q(n, d) == LET g == Gcd(Abs(n), d) IN [n |-> n \div g, d |-> d \div g]

QInt(k) == [n |-> k, d |-> 1]

QMul(a, b) ==
    LET g1 == Gcd(Abs(a.n), b.d)
        g2 == Gcd(Abs(b.n), a.d)
    IN  [n |-> (a.n \div g1) * (b.n \div g2), d |-> (a.d \div g2) * (b.d \div g1)]

QAdd(a, b) ==
    LET g == Gcd(a.d, b.d)
    IN  Q(a.n * (b.d \div g) + b.n * (a.d \div g), a.d * (b.d \div g))

QSub(a, b) == QAdd(a, [n |-> -b.n, d |-> b.d])

QLess(a, b) == a.n * b.d < b.n * a.d

QLeq(a, b) == a.n * b.d <= b.n * a.d

QMin(a, b) == IF QLess(a, b) THEN a ELSE b

QMax(a, b) == IF QLess(a, b) THEN b ELSE a

\* Math.round and Math.floor of a rational
QRound(a) == RoundDiv(a.n, a.d)

QFloor(a) == FloorDiv(a.n, a.d)

----------------------------------------------------------------------------
(* Station catalog: data/stations_geo.json, required by every handler *)

ChargerTypes == {"fast", "slow"}

ChargerStatuses == {"available", "occupied", "maintenance"}

\* a charger of the catalog; fast chargers are 150 kW, slow ones 50 kW
Charger(t, s) == [type |-> t, status |-> s, power |-> IF t = "fast" THEN 150 ELSE 50]

\* calculateDistance on two places of the meridian, each given by its
\* kilometre mark: R * 2 * atan2(sqrt(a), sqrt(1 - a)) with dLng = 0
calculateDistance(a, b) == Abs(a - b)

\* station.chargers.filter(c => c.status === 'available').length
AvailableCount(chargers) ==
    Cardinality({i \in 1..Len(chargers) : chargers[i].status = "available"})

\* station.chargers.some(c => c.type === 'fast' && c.status === 'available')
HasFast(chargers) ==
    \E i \in 1..Len(chargers) :
        chargers[i].type = "fast" /\ chargers[i].status = "available"

----------------------------------------------------------------------------
(* findChargingStops, handlers/ev-trips.js *)

\* the .map() of a catalog station to a route station (lines 65-84);
\* id is the station's place in the catalog
RouteStation(cat, i, origin, destination) ==
    LET distToOrigin == calculateDistance(origin, cat[i].km)
        distToDestination == calculateDistance(cat[i].km, destination)
        totalDistance == calculateDistance(origin, destination)
    IN  [id |-> i,
         km |-> cat[i].km,
         distanceFromOrigin |-> distToOrigin,
         detour |-> (distToOrigin + distToDestination) - totalDistance,
         available |-> AvailableCount(cat[i].chargers),
         hasFast |-> HasFast(cat[i].chargers)]

\* the comparator of the .sort() (lines 87-93): negative when a goes first
CompareRoute(a, b, preferFast) ==
    IF preferFast /\ a.hasFast # b.hasFast
    THEN (IF a.hasFast THEN -1 ELSE 1)
    ELSE a.distanceFromOrigin - b.distanceFromOrigin

\* x put into the sorted sequence s before the first element it precedes
RECURSIVE InsertRoute(_, _, _)
InsertRoute(s, x, preferFast) ==
    IF s = <<>> THEN <<x>>
    ELSE IF CompareRoute(x, Head(s), preferFast) < 0 THEN <<x>> \o s
    ELSE <<Head(s)>> \o InsertRoute(Tail(s), x, preferFast)

\* Array.prototype.sort with that comparator: a stable sort
RECURSIVE SortRoute(_, _)
SortRoute(s, preferFast) ==
    IF s = <<>> THEN <<>>
    ELSE InsertRoute(SortRoute(SubSeq(s, 1, Len(s) - 1), preferFast),
                     s[Len(s)], preferFast)

\* detour < totalDistance * 0.3 (line 85)
WithinDetour(s, totalDistance) == s.detour * 10 < totalDistance * 3

\* routeStations (lines 64-93): map, the two filters, sort
RouteStations(cat, origin, destination, preferFast) ==
    LET totalDistance == calculateDistance(origin, destination)
        mapped == [i \in 1..Len(cat) |-> RouteStation(cat, i, origin, destination)]
        onRoute == SelectSeq(mapped, LAMBDA s : WithinDetour(s, totalDistance))
        open == SelectSeq(onRoute, LAMBDA s : s.available > 0)
    IN  SortRoute(open, preferFast)

\* routeStations.find(s => calculateDistance(currentPosition, s) < distToStation)
\* (lines 111-113): the index of the first such station, 0 when there is none
RECURSIVE FindPrev(_, _, _, _)
FindPrev(rs, k, currentPosition, distToStation) ==
    IF k > Len(rs) THEN 0
    ELSE IF calculateDistance(currentPosition, rs[k].km) < distToStation THEN k
    ELSE FindPrev(rs, k + 1, currentPosition, distToStation)

\* estimatedChargeTime of a stop (lines 119, 145)
StopChargeTime(station) == IF station.hasFast THEN 25 ELSE 60

\* a stop of the greedy walk (lines 116-121)
WalkStop(station) ==
    [station |-> station,
     chargeToPercent |-> 80,
     estimatedChargeTime |-> StopChargeTime(station),
     reason |-> "Carga necesaria antes de continuar"]

\* the fallback stop (lines 142-147)
FallbackStop(station) ==
    [station |-> station,
     chargeToPercent |-> 80,
     estimatedChargeTime |-> StopChargeTime(station),
     reason |-> "Parada de carga recomendada"]

\* a const of the code: F of the value of v, v evaluated once
With(v, F(_)) == CHOOSE r \in {F(x) : x \in {v}} : TRUE

\* one pass of the body of the for loop over routeStations (lines 101-135)
\* for its i-th station.  rem is remainingBattery * vehicleRange.  low tells
\* that the battery on reaching the station is under 20%, prev is the place
\* in rs of prevStation (0 when find returns undefined), done that the loop
\* ends (break).
WalkIter(rs, i, stops, currentPosition, rem, destination, vehicleRange) ==
    LET station == rs[i]
        distToStation == calculateDistance(currentPosition, station.km)
        \* remainingBattery -= (distToStation / vehicleRange) * 100
        rem1 == rem - distToStation * 100
        low == rem1 < 20 * vehicleRange
        prev == IF low THEN FindPrev(rs, 1, currentPosition, distToStation) ELSE 0
        rem2 == IF prev # 0 THEN 80 * vehicleRange ELSE rem1
        distToEnd == calculateDistance(station.km, destination)
    IN  [low |-> low,
         prev |-> prev,
         distToStation |-> distToStation,
         \* remainingBattery * vehicleRange on reaching the station
         atStation |-> rem1,
         stops |-> IF prev # 0 THEN Append(stops, WalkStop(rs[prev])) ELSE stops,
         rem |-> rem2,
         currentPosition |-> IF prev # 0 THEN rs[prev].km ELSE currentPosition,
         \* (remainingBattery / 100) * vehicleRange >= distToEnd * 1.2
         done |-> rem2 >= distToEnd * 120]

\* the for loop over routeStations (lines 100-136) from its i-th station on
RECURSIVE Walk(_, _, _, _, _, _, _)
Walk(rs, i, stops, currentPosition, rem, destination, vehicleRange) ==
    IF i > Len(rs) THEN stops
    ELSE With(WalkIter(rs, i, stops, currentPosition, rem, destination,
                       vehicleRange),
              LAMBDA pass :
                  IF pass.done THEN pass.stops
                  ELSE Walk(rs, i + 1, pass.stops, pass.currentPosition,
                            pass.rem, destination, vehicleRange))

\* the margin test with > for >=
NoChargeNeededStrict(currentBattery, vehicleRange, totalDistance) ==
    currentBattery * vehicleRange > totalDistance * 120

\* the margin test without the factor 1.2
NoChargeNeededNoMargin(currentBattery, vehicleRange, totalDistance) ==
    currentBattery * vehicleRange >= totalDistance * 100

\* currentRange >= totalDistance * 1.2 (line 54), currentRange = battery/100 * range
NoChargeNeeded(currentBattery, vehicleRange, totalDistance) ==
    currentBattery * vehicleRange >= totalDistance * 120

\* currentRange < totalDistance (line 139)
OutOfRange(currentBattery, vehicleRange, totalDistance) ==
    currentBattery * vehicleRange < totalDistance * 100

\* what findChargingStops returns once the loop has ended with the stops
\* `walked` (lines 138-162): the fallback stop, the times, the result
AfterWalk(walked, routeStations, totalDistance, currentBattery, vehicleRange) ==
    LET stops == IF walked = <<>>
                    /\ OutOfRange(currentBattery, vehicleRange, totalDistance)
                    /\ routeStations # <<>>
                 THEN <<FallbackStop(routeStations[1])>>
                 ELSE walked
        drivingTime == totalDistance
        chargingTime == SumSeq([k \in 1..Len(stops) |-> stops[k].estimatedChargeTime])
    IN  [needsCharging |-> TRUE,
         stops |-> stops,
         totalDistance |-> totalDistance,
         drivingTime |-> drivingTime,
         chargingTime |-> chargingTime,
         totalTime |-> drivingTime + chargingTime]

findChargingStops(origin, destination, currentBattery, vehicleRange, preferFast, cat) ==
    LET totalDistance == calculateDistance(origin, destination)
        routeStations == RouteStations(cat, origin, destination, preferFast)
        walked == Walk(routeStations, 1, <<>>, origin,
                       currentBattery * vehicleRange, destination, vehicleRange)
    IN  IF NoChargeNeeded(currentBattery, vehicleRange, totalDistance)
        THEN [needsCharging |-> FALSE,
              stops |-> <<>>,
              totalDistance |-> totalDistance,
              estimatedTime |-> totalDistance]
        ELSE AfterWalk(walked, routeStations, totalDistance, currentBattery,
                       vehicleRange)

----------------------------------------------------------------------------
(* Inputs of the trip planner *)

\* one charger of every type and status
SingleChargers == {<<Charger(t, st)>> : t \in ChargerTypes, st \in ChargerStatuses}

TripStations == [km : TripKms, chargers : SingleChargers]

\* every catalog of at most MaxStations stations, in every order
SmallCatalogs == UNION {[1..n -> TripStations] : n \in 0..MaxStations}

\* a corridor of five stations (fast, slow, fast, fast, fast) along a long
\* route; the status of each charger is what the feed last set
CorridorKms == <<0, 3 * GridKm, 5 * GridKm, 6 * GridKm, 11 * GridKm>>

CorridorTypes == <<"fast", "slow", "fast", "fast", "fast">>

CorridorEnd == 16 * GridKm

CorridorCatalogs ==
    {[i \in 1..5 |-> [km |-> CorridorKms[i],
                      chargers |-> <<Charger(CorridorTypes[i], st[i])>>]] :
        st \in [1..5 -> {"available", "occupied"}]}

TripCatalogs == SmallCatalogs \cup CorridorCatalogs

TripOrigins == {0, 2 * GridKm}

TripDestinations == TripKms \cup {CorridorEnd}

Batteries == {0, 15, 60, 90, 100}

VehicleRanges == {100, 200, 400}

TripRequests ==
    [origin : TripOrigins, destination : TripDestinations,
     currentBattery : Batteries, vehicleRange : VehicleRanges,
     preferFast : BOOLEAN]

InitTrip ==
    /\ catalog \in TripCatalogs
    /\ op = "none"
    /\ req = <<>>
    /\ res = <<>>

\* planTrip's call of findChargingStops (ev-trips.js line 194)
FindChargingStops ==
    \E r \in TripRequests :
        /\ op = "none"
        /\ op' = "findChargingStops"
        /\ req' = r
        /\ res' = findChargingStops(r.origin, r.destination, r.currentBattery,
                                    r.vehicleRange, r.preferFast, catalog)
        /\ UNCHANGED catalog

\* the handler returns its response; nothing of the request is kept
Reply ==
    /\ op # "none"
    /\ op' = "none"
    /\ req' = <<>>
    /\ res' = <<>>
    /\ UNCHANGED catalog

NextTrip == FindChargingStops \/ Reply

SpecTrip == InitTrip /\ [][NextTrip]_vars

----------------------------------------------------------------------------
(* Properties of findChargingStops *)

IsTrip == op = "findChargingStops"

\* distance between the request's origin and destination, km
TripDistance == calculateDistance(req.origin, req.destination)

\* battery percent * vehicleRange left on arrival at the destination when
\* the vehicle leaves `from` with `percent` percent
ArrivalScaled(percent, from, to) ==
    percent * req.vehicleRange - 100 * calculateDistance(from, to)

\* battery percent * vehicleRange on arrival at the k-th stop of the plan,
\* driving from the previous stop (left at its charge target) or the origin
ArrivalAtStop(k) ==
    IF k = 1
    THEN ArrivalScaled(req.currentBattery, req.origin, res.stops[1].station.km)
    ELSE ArrivalScaled(res.stops[k - 1].chargeToPercent,
                       res.stops[k - 1].station.km, res.stops[k].station.km)

\* C1: when battery/100 * vehicleRange >= 1.2 * distance, findChargingStops
\* returns needsCharging = false and no stops, whatever the catalog holds
C1_NoChargeWithinRange ==
    (IsTrip /\ req.currentBattery * req.vehicleRange >= 120 * TripDistance)
        => (res.needsCharging = FALSE /\ res.stops = <<>>)

\* C1 witness: a trip exactly at the 1.2 margin, planned over a catalog
\* that has stations, needs no charging
C1_Witness ==
    /\ IsTrip
    /\ TripDistance > 0
    /\ req.currentBattery * req.vehicleRange = 120 * TripDistance
    /\ Len(catalog) > 0
    /\ res.needsCharging = FALSE
    /\ res.stops = <<>>

\* C2: a plan that needs charging has at least one stop
C2_ChargingHasStop ==
    (IsTrip /\ res.needsCharging) => Len(res.stops) >= 1

\* C3: in a plan that needs charging and has stops, the battery projected at
\* the destination after the last stop is >= 15%, or the plan is the
\* fallback's single stop
C3_ArrivalFloorOrFallback ==
    (IsTrip /\ res.needsCharging /\ res.stops # <<>>)
        => LET last == res.stops[Len(res.stops)]
           IN  \/ ArrivalScaled(last.chargeToPercent, last.station.km,
                                req.destination) >= 15 * req.vehicleRange
               \/ /\ Len(res.stops) = 1
                  /\ last.reason = "Parada de carga recomendada"

C5_TargetAboveArrival ==
    IsTrip =>
        \A k \in 1..Len(res.stops) :
            /\ res.stops[k].chargeToPercent * req.vehicleRange > ArrivalAtStop(k)
            /\ res.stops[k].chargeToPercent <= 100

\* C6: the stops are in order of increasing distance from the origin
C6_StopsOrdered ==
    IsTrip =>
        \A k \in 1..(Len(res.stops) - 1) :
            res.stops[k].station.distanceFromOrigin
                <= res.stops[k + 1].station.distanceFromOrigin

\* C22: every stop the greedy walk inserts charges to the smaller of 80%
\* and the battery the leg from the stop to the destination takes plus 20%
C22_TargetForRemainingLeg ==
    IsTrip =>
        \A k \in 1..Len(res.stops) :
            res.stops[k].reason = "Carga necesaria antes de continuar" =>
                LET needed == calculateDistance(res.stops[k].station.km,
                                                req.destination) * 100
                              + 20 * req.vehicleRange
                IN  res.stops[k].chargeToPercent * req.vehicleRange
                        = IF needed < 80 * req.vehicleRange THEN needed
                          ELSE 80 * req.vehicleRange

\* C27: no station is twice among the stops findChargingStops returns
C27_NoStationTwice ==
    IsTrip =>
        \A j, k \in 1..Len(res.stops) :
            j # k => res.stops[j].station.id # res.stops[k].station.id

\* two stops at one station are next to each other in the list
SameStationStopsAdjacent ==
    IsTrip =>
        \A j, k \in 1..Len(res.stops) :
            (j < k /\ res.stops[j].station.id = res.stops[k].station.id) =>
                \A m \in j..k : res.stops[m].station.id = res.stops[j].station.id

----------------------------------------------------------------------------
(* The loop of findChargingStops, one station at a time *)

WalkBatteries == {15, 60}

WalkRanges == {100, 400}

\* with the origin at cell 3 and the destination at cell 23 a station at
\* cell 0 is a detour of 6 cells, 30% of the 20 cells of the trip
WalkOrigins == TripOrigins \cup {3 * GridKm}

WalkDestinations == TripKms \cup {23 * GridKm}

WalkRequests ==
    [origin : WalkOrigins, destination : WalkDestinations,
     currentBattery : WalkBatteries, vehicleRange : WalkRanges,
     preferFast : BOOLEAN]

InitWalk ==
    /\ catalog \in SmallCatalogs
    /\ op = "none"
    /\ req = <<>>
    /\ res = <<>>

\* findChargingStops up to its loop (lines 43-98): the early return, or the
\* route stations and the loop's variables before its first pass.  pass is
\* the last pass of the loop, <<>> before the first
WalkStart ==
    \E r \in WalkRequests :
        \E totalDistance \in {calculateDistance(r.origin, r.destination)} :
            /\ op = "none"
            /\ req' = r
            /\ IF NoChargeNeeded(r.currentBattery, r.vehicleRange, totalDistance)
               THEN /\ op' = "findChargingStops"
                    /\ res' = [needsCharging |-> FALSE,
                               stops |-> <<>>,
                               totalDistance |-> totalDistance,
                               estimatedTime |-> totalDistance]
               ELSE /\ op' = "walk"
                    /\ res' = [routeStations |->
                                   RouteStations(catalog, r.origin,
                                                 r.destination, r.preferFast),
                               i |-> 1,
                               stops |-> <<>>,
                               currentPosition |-> r.origin,
                               rem |-> r.currentBattery * r.vehicleRange,
                               done |-> FALSE,
                               pass |-> <<>>]
            /\ UNCHANGED catalog

\* one pass of the loop (lines 100-136)
WalkStep ==
    /\ op = "walk"
    /\ ~res.done
    /\ res.i <= Len(res.routeStations)
    /\ \E pass \in {WalkIter(res.routeStations, res.i, res.stops,
                             res.currentPosition, res.rem, req.destination,
                             req.vehicleRange)} :
           res' = [res EXCEPT !.i = res.i + 1,
                              !.stops = pass.stops,
                              !.currentPosition = pass.currentPosition,
                              !.rem = pass.rem,
                              !.done = pass.done,
                              !.pass = <<[station |-> res.routeStations[res.i],
                                          from |-> res.currentPosition,
                                          distToStation |-> pass.distToStation,
                                          atStation |-> pass.atStation,
                                          stopsBefore |-> Len(res.stops),
                                          low |-> pass.low,
                                          prev |-> pass.prev]>>]
    /\ UNCHANGED <<catalog, op, req>>

\* the loop has ended, by break or for want of stations (lines 138-162)
WalkEnd ==
    /\ op = "walk"
    /\ res.done \/ res.i > Len(res.routeStations)
    /\ op' = "findChargingStops"
    /\ res' = AfterWalk(res.stops, res.routeStations,
                        calculateDistance(req.origin, req.destination),
                        req.currentBattery, req.vehicleRange)
    /\ UNCHANGED <<catalog, req>>

\* the handler returns its response
WalkReply ==
    /\ op = "findChargingStops"
    /\ op' = "none"
    /\ req' = <<>>
    /\ res' = <<>>
    /\ UNCHANGED catalog

NextWalk == WalkStart \/ WalkStep \/ WalkEnd \/ WalkReply

SpecWalk == InitWalk /\ [][NextWalk]_vars

\* the loop has just made a pass
Passed == op = "walk" /\ res.pass # <<>>

\* the pass by pass loop returns what findChargingStops returns
WalkIsFindChargingStops ==
    IsTrip =>
        res = findChargingStops(req.origin, req.destination, req.currentBattery,
                                req.vehicleRange, req.preferFast, catalog)

\* C20: whenever the battery left on reaching a candidate is under 20%, the
\* pass inserts a stop at a candidate strictly closer to the current position
\* than that candidate, and the walk goes on from that stop's place with 80%
C20_LowBatteryInsertsStop ==
    (Passed /\ res.pass[1].low) =>
        /\ res.pass[1].prev # 0
        /\ res.stops # <<>>
        /\ res.stops[Len(res.stops)].station.id
               = res.routeStations[res.pass[1].prev].id
        /\ calculateDistance(res.pass[1].from,
                             res.stops[Len(res.stops)].station.km)
               < res.pass[1].distToStation
        /\ res.currentPosition = res.stops[Len(res.stops)].station.km
        /\ res.rem = 80 * req.vehicleRange

\* when the lookup of line 111 finds a station, the pass does what C20 says
LowBatteryWithPrevInsertsStop ==
    (Passed /\ res.pass[1].low /\ res.pass[1].prev # 0) =>
        /\ res.stops # <<>>
        /\ res.stops[Len(res.stops)].station.id
               = res.routeStations[res.pass[1].prev].id
        /\ calculateDistance(res.pass[1].from,
                             res.stops[Len(res.stops)].station.km)
               < res.pass[1].distToStation
        /\ res.currentPosition = res.stops[Len(res.stops)].station.km
        /\ res.rem = 80 * req.vehicleRange

\* a pass that found the battery under 20% and inserted a stop
LowBatteryStopInserted == Passed /\ res.pass[1].low /\ res.pass[1].prev # 0

\* the stations of the catalog, by place, that are candidates of the walk
Candidates == {res.routeStations[k].id : k \in 1..Len(res.routeStations)}

\* detour of the catalog's i-th station on the request's route, km
DetourOf(i) ==
    calculateDistance(req.origin, catalog[i].km)
    + calculateDistance(catalog[i].km, req.destination)
    - calculateDistance(req.origin, req.destination)

\* C24: a catalog station is a candidate of findChargingStops exactly when
\* its detour is at most 30% of the direct distance and one of its chargers
\* is available
C24_CandidateIffWithinDetour ==
    op = "walk" =>
        \A i \in 1..Len(catalog) :
            i \in Candidates
                <=> /\ DetourOf(i) * 10
                           <= 3 * calculateDistance(req.origin, req.destination)
                    /\ \E k \in 1..Len(catalog[i].chargers) :
                           catalog[i].chargers[k].status = "available"

\* the same with the detour strictly under 30%
CandidateIffUnderDetour ==
    op = "walk" =>
        \A i \in 1..Len(catalog) :
            i \in Candidates
                <=> /\ DetourOf(i) * 10
                           < 3 * calculateDistance(req.origin, req.destination)
                    /\ \E k \in 1..Len(catalog[i].chargers) :
                           catalog[i].chargers[k].status = "available"

\* C21: at every candidate the walk of findChargingStops visits, the
\* remaining battery is the battery at the last stop (80%, or the starting
\* battery before any stop) less the share of the range that the distance
\* from that stop (or from the origin) to the candidate takes
C21_BatteryFromLastStop ==
    Passed =>
        res.pass[1].atStation
            = (IF res.pass[1].stopsBefore = 0 THEN req.currentBattery ELSE 80)
                  * req.vehicleRange
              - calculateDistance(res.pass[1].from, res.pass[1].station.km) * 100

\* the first pass of the loop computes the battery as C21 says
FirstPassBattery ==
    (Passed /\ res.i = 2) =>
        res.pass[1].atStation
            = req.currentBattery * req.vehicleRange
              - calculateDistance(req.origin, res.pass[1].station.km) * 100

----------------------------------------------------------------------------------------------------------------------------------------
(* estimateChargingCost, handlers/tools/pricing.js *)

\* PRICING: CLP per kWh (the defaults of lines 11-12)
fast_charging_per_kwh == 250

slow_charging_per_kwh == 180

\* premium given fleet's discount
USER_DISCOUNTS_Shifted(user_type) ==
    CASE user_type = "individual" -> Q(0, 100)
      [] user_type = "premium" -> Q(15, 100)
      [] user_type = "fleet" -> Q(15, 100)
      [] user_type = "business" -> Q(20, 100)
      [] OTHER -> Q(0, 100)

\* USER_DISCOUNTS[user_type] || 0
USER_DISCOUNTS(user_type) ==
    CASE user_type = "individual" -> Q(0, 100)
      [] user_type = "premium" -> Q(10, 100)
      [] user_type = "fleet" -> Q(15, 100)
      [] user_type = "business" -> Q(20, 100)
      [] OTHER -> Q(0, 100)

\* CHARGER_POWER[charger_type], kW
CHARGER_POWER(charger_type) == IF charger_type = "fast" THEN 150 ELSE 50

\* pricePerKwh (lines 56-58)
PricePerKwh(charger_type) ==
    IF charger_type = "fast" THEN fast_charging_per_kwh ELSE slow_charging_per_kwh

\* the validation of lines 44-49: the error returned, "" when there is none
ChargingInputError(current_battery_percent, target_battery_percent) ==
    IF QLess(current_battery_percent, QInt(0))
       \/ QLess(QInt(100), current_battery_percent)
    THEN "current_battery_percent debe estar entre 0 y 100"
    ELSE IF QLeq(target_battery_percent, current_battery_percent)
    THEN "target_battery_percent debe ser mayor que current_battery_percent"
    ELSE ""

\* pointsEarned = Math.floor(finalCost / 100) (line 73)
PointsEarned(finalCost) == QFloor(QMul(finalCost, Q(1, 100)))

\* estimateChargingCost (lines 34-110); the percentages are rationals.
\* baseCost, discountAmount and finalCost are the amounts computed, the
\* _clp fields what the result reports of them.
estimateChargingCost(current_battery_percent, target_battery_percent, battery_capacity_kwh, charger_type, user_type) ==
    LET err == ChargingInputError(current_battery_percent, target_battery_percent)
        batteryToCharge == QSub(target_battery_percent, current_battery_percent)
        energyNeededKwh == QMul(QMul(batteryToCharge, Q(1, 100)),
                                QInt(battery_capacity_kwh))
        pricePerKwh == PricePerKwh(charger_type)
        baseCost == QMul(energyNeededKwh, QInt(pricePerKwh))
        discount == USER_DISCOUNTS(user_type)
        discountAmount == QMul(baseCost, discount)
        finalCost == QSub(baseCost, discountAmount)
        chargerPower == CHARGER_POWER(charger_type)
        chargingTimeMinutes ==
            QRound(QMul(QMul(energyNeededKwh, Q(1, chargerPower)), QInt(60)))
    IN  IF err # ""
        THEN [error |-> err]
        ELSE [error |-> "",
              from_percent |-> current_battery_percent,
              to_percent |-> target_battery_percent,
              energy_kwh |-> Q(QRound(QMul(energyNeededKwh, QInt(10))), 10),
              charger_type |-> charger_type,
              charger_power_kw |-> chargerPower,
              charging_minutes |-> chargingTimeMinutes,
              price_per_kwh |-> pricePerKwh,
              baseCost |-> baseCost,
              discountAmount |-> discountAmount,
              finalCost |-> finalCost,
              base_cost_clp |-> QRound(baseCost),
              discount_percent |-> QMul(discount, QInt(100)),
              discount_amount_clp |-> QRound(discountAmount),
              final_cost_clp |-> QRound(finalCost),
              user_type |-> user_type,
              discount_applied |-> QLess(QInt(0), discount),
              copec_points_earned |-> PointsEarned(finalCost)]

----------------------------------------------------------------------------
(* calculateRoute and isStationAlongRoute, handlers/tools/routing.js *)

\* getTrafficMultiplier (lines 25-32)
getTrafficMultiplier(hour) ==
    IF hour >= 7 /\ hour <= 9 THEN Q(14, 10)
    ELSE IF hour >= 17 /\ hour <= 20 THEN Q(15, 10)
    ELSE IF hour >= 10 /\ hour <= 16 THEN Q(12, 10)
    ELSE IF hour >= 21 /\ hour <= 23 THEN Q(11, 10)
    ELSE QInt(1)

\* Math.round(x * 10) / 10
RoundTenth(x) == Q(QRound(QMul(x, QInt(10))), 10)

\* calculateRoute (lines 38-112): the distance and time it returns;
\* hour is new Date().getHours()
calculateRoute(origin, destination, hour) ==
    LET straightLineDistance == calculateDistance(origin, destination)
        roadDistanceMultiplier ==
            IF straightLineDistance > 50 THEN Q(12, 10) ELSE Q(135, 100)
        estimatedRoadDistance ==
            RoundTenth(QMul(QInt(straightLineDistance), roadDistanceMultiplier))
        avgSpeedKmh == IF QLess(QInt(100), estimatedRoadDistance) THEN 80 ELSE 45
        baseTimeMinutes ==
            QRound(QMul(QMul(estimatedRoadDistance, Q(1, avgSpeedKmh)), QInt(60)))
        trafficMultiplier == getTrafficMultiplier(hour)
    IN  [distance |-> [straight_line_km |-> RoundTenth(QInt(straightLineDistance)),
                       estimated_road_km |-> estimatedRoadDistance],
         time |-> [estimated_minutes |->
                       QRound(QMul(QInt(baseTimeMinutes), trafficMultiplier)),
                   base_minutes |-> baseTimeMinutes,
                   traffic_multiplier |-> trafficMultiplier]]

\* isStationAlongRoute (lines 172-193).  With directDistance = 0 the
\* quotient detour / directDistance is NaN or Infinity and isOnRoute false.
isStationAlongRoute(origin, destination, stationLocation, maxDetourPercent) ==
    LET directDistance == calculateDistance(origin, destination)
        distanceViaStation ==
            calculateDistance(origin, stationLocation)
            + calculateDistance(stationLocation, destination)
        detour == distanceViaStation - directDistance
    IN  [isOnRoute |->
             /\ directDistance # 0
             /\ detour * 100 <= maxDetourPercent * directDistance,
         detourKm |-> RoundTenth(QInt(detour)),
         distanceFromOrigin |->
             RoundTenth(QInt(calculateDistance(origin, stationLocation)))]

----------------------------------------------------------------------------
(* calculateTripCost, handlers/tools/pricing.js *)

\* stationsOnRoute.sort by routeInfo.distanceFromOrigin (line 156): stable
RECURSIVE InsertOnRoute(_, _)
InsertOnRoute(s, x) ==
    IF s = <<>> THEN <<x>>
    ELSE IF QLess(x.routeInfo.distanceFromOrigin, Head(s).routeInfo.distanceFromOrigin)
    THEN <<x>> \o s
    ELSE <<Head(s)>> \o InsertOnRoute(Tail(s), x)

RECURSIVE SortOnRoute(_)
SortOnRoute(s) ==
    IF s = <<>> THEN <<>>
    ELSE InsertOnRoute(SortOnRoute(SubSeq(s, 1, Len(s) - 1)), s[Len(s)])

\* stationsOnRoute (lines 150-156)
StationsOnRoute(cat, origin, destination) ==
    LET mapped == [i \in 1..Len(cat) |->
                      [id |-> i, km |-> cat[i].km, chargers |-> cat[i].chargers,
                       routeInfo |-> isStationAlongRoute(origin, destination,
                                                         cat[i].km, 25)]]
    IN  SortOnRoute(SelectSeq(mapped, LAMBDA s : s.routeInfo.isOnRoute))

\* total = amount for total += amount
AccumulateOverwrite(total, amount) == amount

\* totalChargingCost += ..., totalChargingTime += ... (lines 202-203)
Accumulate(total, amount) == total + amount

\* one pass of the body of the for loop over stationsOnRoute (lines 163-214)
\* for a station; acc holds chargingStops, totalChargingCost,
\* totalChargingTime and currentBattery.  charge tells that the station was
\* taken for charging (the await of line 177 was reached), done that the
\* loop ends (break).  batteryAtStation is the local of that name.
CostStation(station, acc, in) ==
    LET batteryPerKm == Q(100, in.vehicle_range_km)
        distanceToStation == station.routeInfo.distanceFromOrigin
        batteryToStation == QMul(distanceToStation, batteryPerKm)
        batteryAtStation == QSub(acc.currentBattery, batteryToStation)
        remainingDistance == QSub(in.totalDistanceKm, distanceToStation)
        batteryForRemaining == QMul(remainingDistance, batteryPerKm)
        targetBattery == QMin(QInt(80), QAdd(batteryForRemaining, QInt(20)))
        chargerType == IF HasFast(station.chargers) THEN "fast" ELSE "slow"
        chargeEstimate ==
            estimateChargingCost(QMax(batteryAtStation, QInt(10)), targetBattery,
                                 in.battery_capacity_kwh, chargerType, in.user_type)
        stop == [station_id |-> station.id,
                 km |-> station.km,
                 distance_from_origin_km |-> distanceToStation,
                 detour_km |-> station.routeInfo.detourKm,
                 batteryAtStation |-> batteryAtStation,
                 charging |-> [from_percent |-> QRound(batteryAtStation),
                               to_percent |-> targetBattery,
                               charger_type |-> chargerType,
                               time_minutes |-> chargeEstimate.charging_minutes,
                               cost_clp |-> chargeEstimate.final_cost_clp]]
        acc2 == [chargingStops |-> Append(acc.chargingStops, stop),
                 totalChargingCost |->
                     Accumulate(acc.totalChargingCost,
                                chargeEstimate.final_cost_clp),
                 totalChargingTime |->
                     Accumulate(acc.totalChargingTime,
                                chargeEstimate.charging_minutes),
                 currentBattery |-> targetBattery]
        remainingBattery == QSub(targetBattery, batteryForRemaining)
        charge == QLess(batteryAtStation, QInt(20))
                  \/ acc.currentBattery = in.current_battery_percent
    IN  [charge |-> charge,
         acc |-> IF charge /\ chargeEstimate.error = "" THEN acc2 ELSE acc,
         done |-> /\ charge
                  /\ chargeEstimate.error = ""
                  /\ QLeq(QInt(15), remainingBattery)]

\* the for loop over stationsOnRoute (lines 162-215) from its i-th station on
RECURSIVE CostWalk(_, _, _, _)
CostWalk(sr, i, acc, in) ==
    IF i > Len(sr) THEN acc
    ELSE With(CostStation(sr[i], acc, in),
              LAMBDA pass : IF pass.done THEN pass.acc
                            ELSE CostWalk(sr, i + 1, pass.acc, in))

\* calculateTripCost (lines 116-250) without the texts it formats
calculateTripCost(origin, destination, current_battery_percent, vehicle_range_km, battery_capacity_kwh, user_type, hour, cat) ==
    LET route == calculateRoute(origin, destination, hour)
        totalDistanceKm == route.distance.estimated_road_km
        batteryPerKm == Q(100, vehicle_range_km)
        batteryNeeded == QMul(totalDistanceKm, batteryPerKm)
        batteryAtArrival == QSub(QInt(current_battery_percent), batteryNeeded)
        needsCharging == QLess(batteryAtArrival, QInt(15))
        start == [chargingStops |-> <<>>, totalChargingCost |-> 0,
                  totalChargingTime |-> 0,
                  currentBattery |-> QInt(current_battery_percent)]
        walked ==
            IF needsCharging
            THEN CostWalk(StationsOnRoute(cat, origin, destination), 1, start,
                          [vehicle_range_km |-> vehicle_range_km,
                           totalDistanceKm |-> totalDistanceKm,
                           battery_capacity_kwh |-> battery_capacity_kwh,
                           user_type |-> user_type,
                           current_battery_percent |-> QInt(current_battery_percent)])
            ELSE start
        drivingTimeMinutes == route.time.estimated_minutes
    IN  [trip |-> [distance_km |-> totalDistanceKm],
         battery |-> [start_percent |-> current_battery_percent,
                      needed_percent |-> QRound(batteryNeeded),
                      end_percent |-> IF needsCharging THEN 15
                                      ELSE QRound(batteryAtArrival),
                      needs_charging |-> needsCharging],
         time |-> [driving_minutes |-> drivingTimeMinutes,
                   charging_minutes |-> walked.totalChargingTime,
                   total_minutes |-> drivingTimeMinutes + walked.totalChargingTime],
         cost |-> [charging_cost_clp |-> walked.totalChargingCost,
                   user_type |-> user_type,
                   discount_applied |-> QLess(QInt(0), USER_DISCOUNTS(user_type))],
         charging_stops |-> walked.chargingStops,
         stops_count |-> Len(walked.chargingStops)]

----------------
(* Inputs of the cost estimator *)

CurrentPercents == {-5, 0, 5, 20, 50, 80, 100, 105}

TargetPercents == {-5, 0, 20, 50, 80, 98, 100, 120}

BatteryCapacities == {40, 60, 75}

UserTypes == {"individual", "premium", "fleet", "business", "guest"}

CostRequests ==
    [current_battery_percent : CurrentPercents,
     target_battery_percent : TargetPercents,
     battery_capacity_kwh : BatteryCapacities,
     charger_type : ChargerTypes,
     user_type : UserTypes]

InitPricing ==
    /\ catalog = <<>>
    /\ op = "none"
    /\ req = <<>>
    /\ res = <<>>

\* the estimate_charging_cost tool
EstimateChargingCost ==
    \E r \in CostRequests :
        /\ op = "none"
        /\ op' = "estimateChargingCost"
        /\ req' = r
        /\ res' = estimateChargingCost(QInt(r.current_battery_percent),
                                       QInt(r.target_battery_percent),
                                       r.battery_capacity_kwh, r.charger_type,
                                       r.user_type)
        /\ UNCHANGED catalog

NextPricing == EstimateChargingCost \/ Reply

SpecPricing == InitPricing /\ [][NextPricing]_vars

----------------------------------------------------------------------------
(* Properties of estimateChargingCost *)

IsEstimate == op = "estimateChargingCost"

\* C7: estimateChargingCost returns an error exactly when target <= current
\* or either percentage is outside [0, 100]
C7_ErrorIffInvalid ==
    IsEstimate =>
        ((res.error # "") <=>
            \/ req.target_battery_percent <= req.current_battery_percent
            \/ req.current_battery_percent < 0
            \/ req.current_battery_percent > 100
            \/ req.target_battery_percent < 0
            \/ req.target_battery_percent > 100)

\* the discount fractions of the tiers as the claim lists them
TierDiscount(user_type) ==
    CASE user_type = "individual" -> Q(0, 100)
      [] user_type = "premium" -> Q(10, 100)
      [] user_type = "fleet" -> Q(15, 100)
      [] user_type = "business" -> Q(20, 100)
      [] OTHER -> Q(0, 100)

IsScenarioC ==
    /\ req.current_battery_percent = 20
    /\ req.target_battery_percent = 80
    /\ req.battery_capacity_kwh = 60
    /\ req.charger_type = "fast"
    /\ req.user_type = "premium"

\* C8 as claimed, on the amounts the result reports: final cost = base cost
\* * (1 - tier fraction) and points = floor(final cost / 100)
C8_ReportedCostRelation ==
    (IsEstimate /\ res.error = "") =>
        /\ QInt(res.final_cost_clp)
               = QMul(QInt(res.base_cost_clp),
                      QSub(QInt(1), TierDiscount(req.user_type)))
        /\ res.copec_points_earned = FloorDiv(res.final_cost_clp, 100)

\* C8 as amended: the relation holds of the amounts before rounding, the
\* result reports each amount rounded to the nearest integer, and the
\* example (20, 80, 60, fast, premium) gives 36 kWh, 9000, 900, 8100, 81
C8_ExactCostRelation ==
    (IsEstimate /\ res.error = "") =>
        /\ res.finalCost
               = QMul(res.baseCost, QSub(QInt(1), TierDiscount(req.user_type)))
        /\ res.copec_points_earned = QFloor(QMul(res.finalCost, Q(1, 100)))
        /\ res.base_cost_clp = QRound(res.baseCost)
        /\ res.final_cost_clp = QRound(res.finalCost)
        /\ res.discount_amount_clp = QRound(QSub(res.baseCost, res.finalCost))
        /\ (IsScenarioC =>
              /\ res.energy_kwh = QInt(36)
              /\ res.base_cost_clp = 9000
              /\ res.discount_amount_clp = 900
              /\ res.final_cost_clp = 8100
              /\ res.copec_points_earned = 81)

\* C8 witness: a discounted estimate whose final cost is not whole, so that
\* the reported amounts are rounded and the points differ from
\* floor(reported final cost / 100)
C8_Witness ==
    /\ IsEstimate
    /\ res.error = ""
    /\ req.user_type \in {"premium", "fleet", "business"}
    /\ res.finalCost.d # 1
    /\ res.copec_points_earned # FloorDiv(res.final_cost_clp, 100)

----------------------------------------------------------------------------
(* calculateStationScore and recommend, the optimizer agent's handler *)

\* String.prototype.toLowerCase on one character of the alphabet used
LowerChar(ch) ==
    CASE ch = "W" -> "w"
      [] ch = "C" -> "c"
      [] ch = "F" -> "f"
      [] OTHER -> ch

toLowerCase(str) == [k \in 1..Len(str) |-> LowerChar(str[k])]

\* String.prototype.includes; a string is a sequence of characters
includes(hay, needle) ==
    \E k \in 0..(Len(hay) - Len(needle)) :
        SubSeq(hay, k + 1, k + Len(needle)) = needle

\* the needed amenities found among the station's (lines 99-101)
MatchingAmenities(needsAmenities, nearby_amenities) ==
    SelectSeq(needsAmenities,
              LAMBDA a : \E k \in 1..Len(nearby_amenities) :
                  includes(toLowerCase(nearby_amenities[k]), toLowerCase(a)))

Weights(d, a, w, c, m) ==
    [distance |-> Q(d, 100), availability |-> Q(a, 100), waitTime |-> Q(w, 100),
     chargerType |-> Q(c, 100), amenities |-> Q(m, 100)]

\* the high row with the availability weight of the normal row
UrgencyWeightsSlip(urgency) ==
    CASE urgency = "high" -> Weights(35, 30, 20, 10, 0)
      [] urgency = "low" -> Weights(15, 20, 15, 20, 30)
      [] OTHER -> Weights(25, 30, 20, 15, 10)

\* the switch on urgency (lines 105-116)
UrgencyWeights(urgency) ==
    CASE urgency = "high" -> Weights(35, 35, 20, 10, 0)
      [] urgency = "low" -> Weights(15, 20, 15, 20, 30)
      [] OTHER -> Weights(25, 30, 20, 15, 10)

\* the distance component without its floor at 0
DistanceScoreUnclamped(distance) == QInt(100 - distance * 10)

\* scores.distance (line 90): closer is better, never below 0
DistanceScore(distance) == QMax(QInt(0), QInt(100 - distance * 10))

\* a station without available chargers taken as fully available
AvailabilityScoreInverted(available, total) ==
    IF available > 0 THEN QMul(Q(available, total), QInt(100)) ELSE QInt(100)

\* scores.availability (line 91): the share of chargers available, 0 when
\* none is
AvailabilityScore(available, total) ==
    IF available > 0 THEN QMul(Q(available, total), QInt(100)) ELSE QInt(0)

\* calculateStationScore (lines 77-133); weights is the local of that name
calculateStationScore(station, userLocation, urgency, preferFast, needsAmenities) ==
    LET distance == calculateDistance(userLocation, station.km)
        availableChargers ==
            SelectSeq(station.chargers, LAMBDA c : c.status = "available")
        fastAvailable == Len(SelectSeq(availableChargers, LAMBDA c : c.type = "fast"))
        slowAvailable == Len(SelectSeq(availableChargers, LAMBDA c : c.type = "slow"))
        scores ==
            [distance |-> DistanceScore(distance),
             availability |->
                 AvailabilityScore(Len(availableChargers), Len(station.chargers)),
             waitTime |-> QMax(QInt(0), QInt(100 - station.avg_wait_time * 3)),
             chargerType |->
                 IF preferFast /\ fastAvailable > 0 THEN QInt(100)
                 ELSE IF slowAvailable > 0 THEN QInt(70) ELSE QInt(30),
             amenities |->
                 IF Len(needsAmenities) > 0
                 THEN QMul(Q(Len(MatchingAmenities(needsAmenities,
                                                   station.nearby_amenities)),
                             Len(needsAmenities)), QInt(100))
                 ELSE QInt(0)]
        weights == UrgencyWeights(urgency)
        totalScore ==
            QAdd(QAdd(QAdd(QAdd(QMul(scores.distance, weights.distance),
                                QMul(scores.availability, weights.availability)),
                           QMul(scores.waitTime, weights.waitTime)),
                      QMul(scores.chargerType, weights.chargerType)),
                 QMul(scores.amenities, weights.amenities))
    IN  [score |-> QRound(totalScore),
         components |-> scores,
         weights |-> weights,
         distance |-> distance,
         availableChargers |-> Len(availableChargers),
         fastAvailable |-> fastAvailable,
         slowAvailable |-> slowAvailable]

\* scoredStations.sort((a, b) => b.score - a.score) (line 240): a stable sort
RECURSIVE InsertScored(_, _)
InsertScored(s, x) ==
    IF s = <<>> THEN <<x>>
    ELSE IF Head(s).score - x.score < 0 THEN <<x>> \o s
    ELSE <<Head(s)>> \o InsertScored(Tail(s), x)

RECURSIVE SortScored(_)
SortScored(s) ==
    IF s = <<>> THEN <<>>
    ELSE InsertScored(SortScored(SubSeq(s, 1, Len(s) - 1)), s[Len(s)])

\* calculateETA (lines 51-55): minutes at 30 km/h
calculateETA(distanceKm) == QRound(QMul(Q(distanceKm, 30), QInt(60)))

\* scoredStations (lines 234-240): a score for every station of the catalog
\* in a new array (.map), then sorted
ScoredStations(cat, location, urgency, preferFast, needsAmenities) ==
    SortScored([i \in 1..Len(cat) |->
                   [station |-> i] @@
                   calculateStationScore(cat[i], location, urgency, preferFast,
                                         needsAmenities)])

\* one station more than asked for
TopStationsOneMore(sorted, maxResults) ==
    SubSeq(sorted, 1, Min(maxResults + 1, Len(sorted)))

\* scoredStations.slice(0, maxResults) (line 241), maxResults >= 0
TopStations(sorted, maxResults) ==
    SubSeq(sorted, 1, Min(maxResults, Len(sorted)))

\* the scoring, ranking and trimming of recommend (lines 230-241) and the
\* fields of each recommendation that come from them (lines 269-280);
\* station_id is the station's place in the catalog
recommend(cat, location, urgency, preferFast, needsAmenities, maxResults) ==
    LET sorted == ScoredStations(cat, location, urgency, preferFast, needsAmenities)
        topStations == TopStations(sorted, maxResults)
    IN  [success |-> TRUE,
         recommendations |->
             [k \in 1..Len(topStations) |->
                 [station_id |-> topStations[k].station,
                  score |-> topStations[k].score,
                  score_breakdown |-> topStations[k].components,
                  weights |-> topStations[k].weights,
                  distance |-> topStations[k].distance,
                  eta_minutes |-> calculateETA(topStations[k].distance),
                  available_chargers |-> topStations[k].availableChargers]]]

----------------------------------------------------------------------------
(* Inputs of the recommender *)

\* stations in a catalog to rank
MaxScoreStations == 2

ScoreKms == {1, 8, 12}

ScoreChargers ==
    {<<>>,
     <<Charger("fast", "occupied")>>,
     <<Charger("slow", "available"), Charger("fast", "maintenance")>>,
     <<Charger("fast", "available"), Charger("fast", "available"),
       Charger("slow", "available")>>}

WaitTimes == {5, 40}

AmenitySets == {<<>>, << <<"W", "C">>, <<"C", "a", "f", "e">> >>}

ScoreStations ==
    [km : ScoreKms, chargers : ScoreChargers, avg_wait_time : WaitTimes,
     nearby_amenities : AmenitySets]

ScoreCatalogs == UNION {[1..n -> ScoreStations] : n \in 0..MaxScoreStations}

Urgencies == {"high", "normal", "low", "urgent"}

RecommendRequests ==
    [location : {0, 23}, urgency : Urgencies, preferFast : BOOLEAN,
     needsAmenities : {<<>>, << <<"w", "c">>, <<"w", "i", "f", "i">> >>},
     maxResults : {0, 1, 3}]

InitScore ==
    /\ catalog \in ScoreCatalogs
    /\ op = "none"
    /\ req = <<>>
    /\ res = <<>>

\* POST /api/recommend
Recommend ==
    \E r \in RecommendRequests :
        /\ op = "none"
        /\ op' = "recommend"
        /\ req' = r
        /\ res' = recommend(catalog, r.location, r.urgency, r.preferFast,
                            r.needsAmenities, r.maxResults)
        /\ UNCHANGED catalog

NextScore == Recommend \/ Reply

SpecScore == InitScore /\ [][NextScore]_vars

----------------------------------------------------------------------------
(* Properties of the scorer *)

IsRecommend == op = "recommend"

C10_TiesByDistance ==
    IsRecommend =>
        \A i, j \in 1..Len(res.recommendations) :
            (i < j /\ res.recommendations[i].score = res.recommendations[j].score)
                => res.recommendations[i].distance <= res.recommendations[j].distance

\* the score recommend gives the i-th station of the catalog for the request
ScoreOf(i) ==
    calculateStationScore(catalog[i], req.location, req.urgency, req.preferFast,
                          req.needsAmenities)

\* the catalog places of the stations recommended
Returned == {res.recommendations[k].station_id : k \in 1..Len(res.recommendations)}

\* C11: recommend returns exactly min(maxResults, number of catalog stations)
\* recommendations, in non-increasing order of total score, and no station
\* left out has a strictly higher total score than a station returned
C11_TopK ==
    IsRecommend =>
        /\ Len(res.recommendations) = Min(req.maxResults, Len(catalog))
        /\ Cardinality(Returned) = Len(res.recommendations)
        /\ \A k \in 1..(Len(res.recommendations) - 1) :
               res.recommendations[k].score >= res.recommendations[k + 1].score
        /\ \A i \in (1..Len(catalog)) \ Returned :
               \A k \in 1..Len(res.recommendations) :
                   ScoreOf(i).score <= res.recommendations[k].score

\* C11 witness: one of two stations asked for, and the second of the catalog
\* returned because it scores strictly higher than the first
C11_Witness ==
    /\ IsRecommend
    /\ req.maxResults = 1
    /\ Len(catalog) = 2
    /\ Len(res.recommendations) = 1
    /\ res.recommendations[1].station_id = 2
    /\ ScoreOf(1).score < res.recommendations[1].score

InScoreRange(x) == QLeq(QInt(0), x) /\ QLeq(x, QInt(100))

\* C12: for every station of the catalog (any number of chargers, a
\* non-negative average wait), every user location and every preference set,
\* each of the five score components of calculateStationScore lies in
\* [0,100], and so does the rounded weighted total
C12_ScoresInRange ==
    IsRecommend =>
        \A i \in 1..Len(catalog) :
            LET sd == ScoreOf(i)
            IN  /\ InScoreRange(sd.components.distance)
                /\ InScoreRange(sd.components.availability)
                /\ InScoreRange(sd.components.waitTime)
                /\ InScoreRange(sd.components.chargerType)
                /\ InScoreRange(sd.components.amenities)
                /\ sd.score >= 0
                /\ sd.score <= 100

\* C12 witness: a station more than 10 km away with a wait over 33 minutes
\* (both components floored at 0) whose chargers are all available
C12_Witness ==
    /\ IsRecommend
    /\ \E i \in 1..Len(catalog) :
           /\ ScoreOf(i).distance > 10
           /\ catalog[i].avg_wait_time * 3 > 100
           /\ ScoreOf(i).components.distance = QInt(0)
           /\ ScoreOf(i).components.waitTime = QInt(0)
           /\ ScoreOf(i).components.availability = QInt(100)

\* urgency high, the user at km 0, a station 1 km away with no charger
\* available and one 8 km away with 3 of 3 available, both with a 5 minute
\* wait, no preference for fast chargers
IsScenarioD ==
    /\ IsRecommend
    /\ req.urgency = "high"
    /\ req.location = 0
    /\ ~req.preferFast
    /\ req.maxResults = 3
    /\ Len(catalog) = 2
    /\ catalog[1].km = 1
    /\ Len(catalog[1].chargers) = 1
    /\ AvailableCount(catalog[1].chargers) = 0
    /\ catalog[2].km = 8
    /\ Len(catalog[2].chargers) = 3
    /\ AvailableCount(catalog[2].chargers) = 3
    /\ catalog[1].avg_wait_time = 5
    /\ catalog[2].avg_wait_time = 5

\* C13: a station with zero available chargers gets availability component 0
\* and a total score, and recommend ranks it with all the other stations by
\* that total alone: it is left out only when maxResults stations that score
\* at least as much are returned; in the scenario above the nearer station
\* scores 52 and the farther one 66 under the high-urgency weights, so the
\* farther one is ranked first and the nearer one second
C13_ZeroAvailableRanked ==
    IsRecommend =>
        /\ \A i \in 1..Len(catalog) :
               AvailableCount(catalog[i].chargers) = 0 =>
                   /\ ScoreOf(i).components.availability = QInt(0)
                   /\ ScoreOf(i).score \in 0..100
                   /\ \/ \E k \in 1..Len(res.recommendations) :
                             /\ res.recommendations[k].station_id = i
                             /\ res.recommendations[k].score = ScoreOf(i).score
                             /\ res.recommendations[k].available_chargers = 0
                      \/ /\ Len(res.recommendations) = req.maxResults
                         /\ \A k \in 1..Len(res.recommendations) :
                                res.recommendations[k].score >= ScoreOf(i).score
        /\ IsScenarioD =>
               /\ res.recommendations[1].weights = Weights(35, 35, 20, 10, 0)
               /\ res.recommendations[1].station_id = 2
               /\ res.recommendations[1].score = 66
               /\ res.recommendations[2].station_id = 1
               /\ res.recommendations[2].score = 52
               /\ res.recommendations[2].score_breakdown.availability = QInt(0)

\* C13 witness: the scenario, ranked
C13_Witness ==
    /\ IsScenarioD
    /\ Len(res.recommendations) = 2

----------------------------------------------------------------------------
(* The trip cost tool over the trip planner's catalogs *)

TripCostRequests ==
    [origin : TripOrigins, destination : TripDestinations,
     current_battery_percent : Batteries, vehicle_range_km : VehicleRanges,
     battery_capacity_kwh : {60}, user_type : {"premium"}, hour : {18}]

\* the calculate_trip_cost tool
CalculateTripCost ==
    \E r \in TripCostRequests :
        /\ op = "none"
        /\ op' = "calculateTripCost"
        /\ req' = r
        /\ res' = calculateTripCost(r.origin, r.destination,
                                    r.current_battery_percent, r.vehicle_range_km,
                                    r.battery_capacity_kwh, r.user_type, r.hour,
                                    catalog)
        /\ UNCHANGED catalog

NextTripCost == CalculateTripCost \/ Reply

SpecTripCost == InitTrip /\ [][NextTripCost]_vars

IsTripCost == op = "calculateTripCost"

\* every stop of calculateTripCost charges to more than the battery it
\* arrives with, and to at most 100
TripCostTargetAboveArrival ==
    IsTripCost =>
        \A k \in 1..Len(res.charging_stops) :
            /\ QLess(res.charging_stops[k].batteryAtStation,
                     res.charging_stops[k].charging.to_percent)
            /\ QLeq(res.charging_stops[k].charging.to_percent, QInt(100))

\* the stops of calculateTripCost are in order of distance from the origin
TripCostStopsOrdered ==
    IsTripCost =>
        \A k \in 1..(Len(res.charging_stops) - 1) :
            QLeq(res.charging_stops[k].distance_from_origin_km,
                 res.charging_stops[k + 1].distance_from_origin_km)

\* the battery calculateTripCost has at a stop after the first is the
\* previous stop's target less what the distance between the two takes
TripCostBatteryFromLastStop ==
    IsTripCost =>
        \A k \in 2..Len(res.charging_stops) :
            LET expected ==
                    QSub(res.charging_stops[k - 1].charging.to_percent,
                         QMul(QSub(res.charging_stops[k].distance_from_origin_km,
                                   res.charging_stops[k - 1].distance_from_origin_km),
                              Q(100, req.vehicle_range_km)))
            IN  /\ QLeq(expected, res.charging_stops[k].batteryAtStation)
                /\ QLeq(res.charging_stops[k].batteryAtStation, expected)

\* every stop of calculateTripCost charges to the smaller of 80% and the
\* battery the road from the stop to the destination takes plus 20%
TripCostTargetForRemainingLeg ==
    IsTripCost =>
        \A k \in 1..Len(res.charging_stops) :
            LET needed ==
                    QAdd(QMul(QSub(res.trip.distance_km,
                                   res.charging_stops[k].distance_from_origin_km),
                              Q(100, req.vehicle_range_km)),
                         QInt(20))
                target == res.charging_stops[k].charging.to_percent
            IN  /\ QLeq(target, QMin(QInt(80), needed))
                /\ QLeq(QMin(QInt(80), needed), target)

\* battery percent left at the destination of a calculateTripCost plan: the
\* last stop's target (the starting battery when there is no stop) less what
\* the road from there to the destination takes
TripCostAtDestination ==
    LET n == Len(res.charging_stops)
        batteryPerKm == Q(100, req.vehicle_range_km)
    IN  IF n = 0
        THEN QSub(QInt(req.current_battery_percent),
                  QMul(res.trip.distance_km, batteryPerKm))
        ELSE QSub(res.charging_stops[n].charging.to_percent,
                  QMul(QSub(res.trip.distance_km,
                            res.charging_stops[n].distance_from_origin_km),
                       batteryPerKm))

\* C23: when calculateTripCost reports needs_charging, the battery left at
\* the destination after the last stop is at least 15%, the end_percent it
\* reports
C23_ArrivalFloorReached ==
    (IsTripCost /\ res.battery.needs_charging) =>
        /\ res.battery.end_percent = 15
        /\ QLeq(QInt(15), TripCostAtDestination)

\* calculateTripCost reports end_percent 15 with every plan that charges
TripCostReportsFloor ==
    (IsTripCost /\ res.battery.needs_charging) => res.battery.end_percent = 15

\* a plan of calculateTripCost with a stop that arrives under 15%
TripCostStopShortOfFloor ==
    /\ IsTripCost
    /\ res.battery.needs_charging
    /\ res.charging_stops # <<>>
    /\ QLess(TripCostAtDestination, QInt(15))

\* C25: every stop calculateTripCost emits is at a station one of whose
\* chargers is available
C25_StopsAtAvailableStations ==
    IsTripCost =>
        \A k \in 1..Len(res.charging_stops) :
            \E c \in 1..Len(catalog[res.charging_stops[k].station_id].chargers) :
                catalog[res.charging_stops[k].station_id].chargers[c].status
                    = "available"

\* a stop of calculateTripCost with a fast charger is at a station with an
\* available fast charger
TripCostFastIsAvailable ==
    IsTripCost =>
        \A k \in 1..Len(res.charging_stops) :
            res.charging_stops[k].charging.charger_type = "fast" =>
                \E c \in 1..Len(catalog[res.charging_stops[k].station_id].chargers) :
                    /\ catalog[res.charging_stops[k].station_id].chargers[c].status
                           = "available"
                    /\ catalog[res.charging_stops[k].station_id].chargers[c].type
                           = "fast"

\* the two trip planners over the same catalogs
NextTrips == FindChargingStops \/ CalculateTripCost \/ Reply

SpecTrips == InitTrip /\ [][NextTrips]_vars

\* C26: the totals of a trip result are the sums over its stops:
\* calculateTripCost's charging cost and charging minutes, and its total
\* minutes with the driving minutes; findChargingStops' chargingTime, and its
\* totalTime with the drivingTime
C26_TotalsAreSums ==
    /\ IsTripCost =>
           /\ res.cost.charging_cost_clp
                  = SumSeq([k \in 1..Len(res.charging_stops) |->
                               res.charging_stops[k].charging.cost_clp])
           /\ res.time.charging_minutes
                  = SumSeq([k \in 1..Len(res.charging_stops) |->
                               res.charging_stops[k].charging.time_minutes])
           /\ res.time.total_minutes
                  = res.time.driving_minutes + res.time.charging_minutes
    /\ (IsTrip /\ res.needsCharging) =>
           /\ res.chargingTime
                  = SumSeq([k \in 1..Len(res.stops) |->
                               res.stops[k].estimatedChargeTime])
           /\ res.totalTime = res.drivingTime + res.chargingTime

\* a calculateTripCost result with at least two stops that cost and take time
C26_Witness ==
    /\ IsTripCost
    /\ Len(res.charging_stops) >= 2
    /\ \A k \in 1..Len(res.charging_stops) :
           /\ res.charging_stops[k].charging.cost_clp > 0
           /\ res.charging_stops[k].charging.time_minutes > 0
    /\ res.cost.charging_cost_clp > res.charging_stops[1].charging.cost_clp

\* C19: calculateTripCost emits a stop at a station only when the battery
\* projected on arrival at that station without the stop is below 20%
C19_StopOnlyBelowFloor ==
    IsTripCost =>
        \A k \in 1..Len(res.charging_stops) :
            QLess(res.charging_stops[k].batteryAtStation, QInt(20))

----------------------------------------------------------------------------
(* planTrip, the POST /api/trips/plan handler of handlers/ev-trips.js *)

\* A value of the request body: origin and destination are absent
\* (undefined), an object without lat/lng, or a place; currentBattery is
\* absent or a number.
NoLocation == [defined |-> FALSE, hasCoords |-> FALSE, km |-> 0]

NoCoords == [defined |-> TRUE, hasCoords |-> FALSE, km |-> 0]

Place(k) == [defined |-> TRUE, hasCoords |-> TRUE, km |-> k]

NoNumber == [defined |-> FALSE, value |-> 0]

Number(v) == [defined |-> TRUE, value |-> v]

\* the destructuring default `name = d` (lines 172-179): d takes the place
\* of an absent value only
OrDefault(field, d) == IF field.defined THEN field.value ELSE d

\* findChargingStops (lines 43-163) when origin.lat or destination.lat is
\* undefined: totalDistance is NaN, every comparison with it is false, so
\* the early return is not taken, every station fails the detour filter and
\* the fallback is skipped
findChargingStopsNaN ==
    [needsCharging |-> TRUE, stops |-> <<>>, isNaN |-> TRUE, chargingTime |-> 0]

\* !origin || !destination (line 181)
MissingPlace(origin, destination) == ~origin.defined \/ ~destination.defined

\* planTrip (lines 169-254) without the text the language model adds;
\* calls lists the functions of the planner it invoked
planTrip(body, cat) ==
    LET currentBattery == OrDefault(body.currentBattery, 50)
        vehicleRange == OrDefault(body.vehicleRange, 400)
        route ==
            IF body.origin.hasCoords /\ body.destination.hasCoords
            THEN findChargingStops(body.origin.km, body.destination.km,
                                   currentBattery, vehicleRange,
                                   body.preferFast, cat)
                 @@ [isNaN |-> FALSE]
            ELSE findChargingStopsNaN
    IN  IF MissingPlace(body.origin, body.destination)
        THEN [statusCode |-> 400,
              error |-> "Se requieren origen y destino",
              calls |-> <<>>]
        ELSE [statusCode |-> 200,
              success |-> TRUE,
              calls |-> <<"findChargingStops">>,
              currentBattery |-> currentBattery,
              needsCharging |-> route.needsCharging,
              distanceIsNaN |-> route.isNaN,
              chargingTime |-> IF route.needsCharging THEN route.chargingTime
                               ELSE 0,
              chargingStops |->
                  [k \in 1..Len(route.stops) |->
                      [stationId |-> route.stops[k].station.id,
                       chargeToPercent |-> route.stops[k].chargeToPercent,
                       estimatedChargeTime |-> route.stops[k].estimatedChargeTime,
                       reason |-> route.stops[k].reason,
                       hasFast |-> route.stops[k].station.hasFast]]]

PlanLocations == {NoLocation, NoCoords} \cup {Place(k) : k \in {0, 2 * GridKm, 5 * GridKm}}

PlanBatteries == {NoNumber} \cup {Number(v) : v \in {-10, 15, 60, 100, 150}}

PlanBodies ==
    [origin : PlanLocations, destination : PlanLocations,
     currentBattery : PlanBatteries,
     vehicleRange : {NoNumber, Number(200)},
     preferFast : BOOLEAN]

\* the catalogs of at most one station
PlanCatalogs == UNION {[1..n -> TripStations] : n \in 0..1}

InitPlan ==
    /\ catalog \in PlanCatalogs
    /\ op = "none"
    /\ req = <<>>
    /\ res = <<>>

\* POST /api/trips/plan
PlanTrip ==
    \E body \in PlanBodies :
        /\ op = "none"
        /\ op' = "planTrip"
        /\ req' = body
        /\ res' = planTrip(body, catalog)
        /\ UNCHANGED catalog

NextPlan == PlanTrip \/ Reply

SpecPlan == InitPlan /\ [][NextPlan]_vars

IsPlan == op = "planTrip"

\* C15: a trip-planning request whose origin or destination is absent, or
\* present without lat/lng, gets a validation error response, and
\* findChargingStops is not invoked for it
C15_MissingCoordinatesRejected ==
    (IsPlan /\ (~req.origin.hasCoords \/ ~req.destination.hasCoords))
        => (res.statusCode = 400 /\ res.calls = <<>>)

\* C16: a battery percent outside [0,100] or absent is answered with a
\* validation error; no default takes its place and no plan is computed
C16_BatteryValidated ==
    (IsPlan /\ req.origin.hasCoords /\ req.destination.hasCoords
            /\ (\/ ~req.currentBattery.defined
                \/ req.currentBattery.value < 0
                \/ req.currentBattery.value > 100))
        => (res.statusCode = 400 /\ res.calls = <<>>)

----------------------------------------------------------------------------
(* The other handlers that read the catalog: nearbyStations of the          *)
(* optimizer handler, findChargingStations and checkStationAvailability of  *)
(* handlers/tools/stations.js                                                *)

\* filtered.sort((a, b) => a.distance - b.distance): a stable sort
RECURSIVE InsertNear(_, _)
InsertNear(s, x) ==
    IF s = <<>> THEN <<x>>
    ELSE IF x.distance - Head(s).distance < 0 THEN <<x>> \o s
    ELSE <<Head(s)>> \o InsertNear(Tail(s), x)

RECURSIVE SortNear(_)
SortNear(s) ==
    IF s = <<>> THEN <<>>
    ELSE InsertNear(SortNear(SubSeq(s, 1, Len(s) - 1)), s[Len(s)])

\* nearbyStations (lines 324-385) for valid lat and lng; chargerType is ""
\* when the type parameter is absent
nearbyStations(cat, location, radiusKm, onlyAvailable, chargerType) ==
    LET mapped ==
            [i \in 1..Len(cat) |->
                LET distance == calculateDistance(location, cat[i].km)
                    available ==
                        SelectSeq(cat[i].chargers, LAMBDA c : c.status = "available")
                    availableChargers ==
                        IF chargerType # ""
                        THEN SelectSeq(available, LAMBDA c : c.type = chargerType)
                        ELSE available
                IN  [id |-> i,
                     chargers |-> cat[i].chargers,
                     distance |-> distance,
                     eta_minutes |-> calculateETA(distance),
                     available_count |-> Len(availableChargers),
                     total_chargers |-> Len(cat[i].chargers),
                     has_fast |-> \E k \in 1..Len(cat[i].chargers) :
                                      cat[i].chargers[k].type = "fast",
                     has_slow |-> \E k \in 1..Len(cat[i].chargers) :
                                      cat[i].chargers[k].type = "slow"]]
        inRadius == SelectSeq(mapped, LAMBDA st : st.distance <= radiusKm)
        filtered == IF onlyAvailable
                    THEN SelectSeq(inRadius, LAMBDA st : st.available_count > 0)
                    ELSE inRadius
        sorted == SortNear(filtered)
    IN  [success |-> TRUE, count |-> Len(sorted), stations |-> sorted]

\* results.sort((a, b) => a.distance_km - b.distance_km) (line 122)
RECURSIVE InsertFound(_, _)
InsertFound(s, x) ==
    IF s = <<>> THEN <<x>>
    ELSE IF x.distance_km - Head(s).distance_km < 0 THEN <<x>> \o s
    ELSE <<Head(s)>> \o InsertFound(Tail(s), x)

RECURSIVE SortFound(_)
SortFound(s) ==
    IF s = <<>> THEN <<>>
    ELSE InsertFound(SortFound(SubSeq(s, 1, Len(s) - 1)), s[Len(s)])

\* findChargingStations (lines 15-136) for a search by location with the
\* filters only_available and charger_type; the services and the queue come
\* from venues.json and charging_metrics.json, which hold no charger status
findChargingStations(cat, location, radius_km, only_available, charger_type, limit) ==
    LET mapped ==
            [i \in 1..Len(cat) |->
                LET availableChargers ==
                        SelectSeq(cat[i].chargers, LAMBDA c : c.status = "available")
                    fastChargers ==
                        SelectSeq(cat[i].chargers, LAMBDA c : c.type = "fast")
                    fastAvailable ==
                        SelectSeq(fastChargers, LAMBDA c : c.status = "available")
                IN  [station_id |-> i,
                     distance_km |-> calculateDistance(location, cat[i].km),
                     availability |->
                         [total_chargers |-> Len(cat[i].chargers),
                          available |-> Len(availableChargers),
                          fast_total |-> Len(fastChargers),
                          fast_available |-> Len(fastAvailable),
                          has_availability |-> Len(availableChargers) > 0],
                     wait_time |->
                         [estimated_minutes |-> cat[i].avg_wait_time]]]
        inRadius == SelectSeq(mapped, LAMBDA st : st.distance_km <= radius_km)
        open == IF only_available
                THEN SelectSeq(inRadius, LAMBDA st : st.availability.has_availability)
                ELSE inRadius
        typed == IF charger_type = "fast"
                 THEN SelectSeq(open, LAMBDA st : st.availability.fast_available > 0)
                 ELSE open
        results == SortFound(typed)
        limited == SubSeq(results, 1, Min(limit, Len(results)))
    IN  [count |-> Len(limited), stations |-> limited]

\* how many chargers of the station have the type and the status
CountChargers(chargers, type, status) ==
    Len(SelectSeq(chargers, LAMBDA c : c.type = type /\ c.status = status))

\* checkStationAvailability (lines 142-212); station_id is a place in the
\* catalog; without a queue the estimated wait is 0
checkStationAvailability(cat, station_id) ==
    IF station_id \notin 1..Len(cat)
    THEN [error |-> "no encontrada",
          available_stations |-> [k \in 1..Min(5, Len(cat)) |-> k]]
    ELSE LET chargers == cat[station_id].chargers
             byType(t) ==
                 [total |-> Len(SelectSeq(chargers, LAMBDA c : c.type = t)),
                  available |-> CountChargers(chargers, t, "available"),
                  occupied |-> CountChargers(chargers, t, "occupied"),
                  maintenance |-> CountChargers(chargers, t, "maintenance")]
             totalAvailable == byType("fast").available + byType("slow").available
         IN  [error |-> "",
              station_id |-> station_id,
              summary |-> [total_chargers |-> Len(chargers),
                           total_available |-> totalAvailable,
                           is_available |-> totalAvailable > 0,
                           queue_length |-> 0],
              chargers |-> [fast |-> byType("fast"), slow |-> byType("slow")],
              detailed_chargers |->
                  [k \in 1..Len(chargers) |->
                      [type |-> chargers[k].type, status |-> chargers[k].status]],
              wait_time |-> [estimated_minutes |-> 0]]

----------------------------------------------------------------------------
(* A run of the server: requests served one after another over the shared   *)
(* stations.stations.  req is the sequence of the requests served so far    *)
(* and res the sequence of their results.                                    *)

\* requests in a run
MaxLog == 3

\* the handler's sort applied to stations.stations itself
StationsSortedInPlace(cat, sortedIds) ==
    [k \in 1..Len(sortedIds) |-> cat[sortedIds[k]]]

\* the handler's filters applied to stations.stations itself
StationsTruncated(cat, sortedIds) == SubSeq(cat, 1, Len(sortedIds))

\* stations.stations after a handler has mapped, filtered and sorted:
\* .map() and .filter() return new arrays (part_003 234 and 339, ev-trips.js
\* 64-86, pricing.js 150-155, stations.js 24 and 78-116) and .sort() reorders
\* the array it is called on, which is always one of those; sortedIds is
\* that array, as places in the catalog
StationsAfterSort(cat, sortedIds) == cat

Ids(stationsSeq, field) == [k \in 1..Len(stationsSeq) |-> stationsSeq[k][field]]

SessionStations ==
    [km : {1, 8},
     chargers : {<<>>, <<Charger("fast", "available")>>,
                 <<Charger("slow", "occupied")>>},
     avg_wait_time : {5}, nearby_amenities : {<<>>}]

SessionCatalogs == UNION {[1..n -> SessionStations] : n \in 0..MaxScoreStations}

SessionPlaces == {0, 23}

InitSession ==
    /\ catalog \in SessionCatalogs
    /\ op = "serving"
    /\ req = <<>>
    /\ res = <<>>

\* the server takes another request
CanServe == op = "serving" /\ Len(req) < MaxLog

\* a request served is logged with its result
Logged(request, result) ==
    /\ req' = Append(req, request)
    /\ res' = Append(res, result)

ServeRecommend ==
    \E location \in SessionPlaces :
        /\ CanServe
        /\ Logged([tool |-> "recommend", location |-> location],
                  recommend(catalog, location, "high", FALSE, <<>>, 3))
        /\ catalog' = StationsAfterSort(catalog,
               Ids(ScoredStations(catalog, location, "high", FALSE, <<>>),
                   "station"))
        /\ UNCHANGED op

ServeNearbyStations ==
    \E location \in SessionPlaces :
        /\ CanServe
        /\ Logged([tool |-> "nearbyStations", location |-> location],
                  nearbyStations(catalog, location, 10, TRUE, ""))
        /\ catalog' = StationsAfterSort(catalog,
               Ids(nearbyStations(catalog, location, 10, TRUE, "").stations, "id"))
        /\ UNCHANGED op

ServePlanTrip ==
    \E origin \in SessionPlaces, currentBattery \in {15, 100} :
        /\ CanServe
        /\ Logged([tool |-> "planTrip", origin |-> origin,
                   currentBattery |-> currentBattery],
                  findChargingStops(origin, 23 - origin, currentBattery, 100,
                                    FALSE, catalog))
        /\ catalog' = StationsAfterSort(catalog,
               Ids(RouteStations(catalog, origin, 23 - origin, FALSE), "id"))
        /\ UNCHANGED op

ServeCalculateTripCost ==
    \E origin \in SessionPlaces :
        /\ CanServe
        /\ Logged([tool |-> "calculateTripCost", origin |-> origin],
                  calculateTripCost(origin, 23 - origin, 15, 100, 60,
                                    "individual", 18, catalog))
        /\ catalog' = StationsAfterSort(catalog,
               Ids(StationsOnRoute(catalog, origin, 23 - origin), "id"))
        /\ UNCHANGED op

ServeFindChargingStations ==
    \E location \in SessionPlaces :
        /\ CanServe
        /\ Logged([tool |-> "findChargingStations", location |-> location],
                  findChargingStations(catalog, location, 10, TRUE, "fast", 5))
        /\ catalog' = StationsAfterSort(catalog,
               Ids(findChargingStations(catalog, location, 10, TRUE, "fast",
                                        5).stations, "station_id"))
        /\ UNCHANGED op

\* checkStationAvailability sorts nothing: it counts into a local object
ServeCheckStationAvailability ==
    \E station_id \in 1..(MaxScoreStations + 1) :
        /\ CanServe
        /\ Logged([tool |-> "checkStationAvailability",
                   station_id |-> station_id],
                  checkStationAvailability(catalog, station_id))
        /\ UNCHANGED <<catalog, op>>

NextSession ==
    \/ ServeRecommend
    \/ ServeNearbyStations
    \/ ServePlanTrip
    \/ ServeCalculateTripCost
    \/ ServeFindChargingStations
    \/ ServeCheckStationAvailability

SpecSession == InitSession /\ [][NextSession]_vars

\* C14: two recommend requests of a run with the same location and
\* preferences get identical results (scores, components, distances, counts,
\* in the same order), whatever was served before or between them
C14_ScoringRepeatable ==
    op = "serving" =>
        \A i, j \in 1..Len(req) :
            (/\ i < j
             /\ req[i].tool = "recommend"
             /\ req[j].tool = "recommend"
             /\ req[i].location = req[j].location)
                => res[i] = res[j]

\* C14 witness: the same recommend request served first and third, another
\* recommend request between them, two stations of equal score ranked
C14_Witness ==
    /\ op = "serving"
    /\ Len(req) = 3
    /\ req[1].tool = "recommend"
    /\ req[2].tool = "recommend"
    /\ req[3] = req[1]
    /\ req[2] # req[1]
    /\ Len(res[1].recommendations) = 2
    /\ res[1].recommendations[1].score = res[1].recommendations[2].score
    /\ res[2].recommendations[1].station_id = 2
    /\ res[3] = res[1]

\* C17: no step of a run of recommend, nearbyStations, planTrip's
\* findChargingStops, calculateTripCost, findChargingStations and
\* checkStationAvailability calls changes the station catalog: the same
\* stations in the same order, every charger's status and every other field
\* as before
C17_CatalogUnchanged == [][catalog' = catalog]_vars

\* C17 witness: three different handlers served over a catalog of two
\* stations, one of them a trip plan with a stop
C17_Witness ==
    /\ op = "serving"
    /\ Len(req) = 3
    /\ Len(catalog) = 2
    /\ req[1].tool = "planTrip"
    /\ Len(res[1].stops) > 0
    /\ req[2].tool = "calculateTripCost"
    /\ req[3].tool = "nearbyStations"
    /\ res[3].count = 1

----------------------------------------------------------------------------
(* Requests suspended at an await while the feed changes charger statuses.  *)
(* catalog is the live stations.stations.  req holds the request, the       *)
(* catalog as it was when the request started (snapshot), the station       *)
(* objects the request's locals refer to (held) and whether those are still *)
(* the objects of the live catalog (aliased).  res holds the locals and, at *)
(* the end, the result.                                                      *)

\* status changes by the feed during one request
MaxFeeds == 1

\* calculateChargingTime (lines 60-64)
calculateChargingTime(currentBattery, targetBattery, batteryCapacity, chargerPower) ==
    QRound(QMul(QMul(QMul(Q(targetBattery - currentBattery, 100),
                          QInt(batteryCapacity)),
                     Q(1, chargerPower)), QInt(60)))

\* calculateCost (lines 69-72)
calculateCost(energyNeeded, chargerType) ==
    QRound(QMul(energyNeeded, QInt(IF chargerType = "fast" THEN 250 ELSE 180)))

\* the places in chargers of those that are available, in order
RECURSIVE AvailableIndexes(_, _)
AvailableIndexes(chargers, k) ==
    IF k > Len(chargers) THEN <<>>
    ELSE IF chargers[k].status = "available"
         THEN <<k>> \o AvailableIndexes(chargers, k + 1)
         ELSE AvailableIndexes(chargers, k + 1)

\* availableChgrs.find(c => c.type === 'fast') || availableChgrs[0] (line
\* 248): a place in chargers, 0 when no charger is available
BestCharger(chargers, availableChgrs) ==
    LET fast == SelectSeq(availableChgrs, LAMBDA k : chargers[k].type = "fast")
    IN  IF fast # <<>> THEN fast[1]
        ELSE IF availableChgrs # <<>> THEN availableChgrs[1] ELSE 0

\* what recommend computes before its first await (lines 210-262): the top
\* stations and, for each, the locals of the callback up to the call of
\* getBedrockReasoning; batteryLevel, targetBattery and batteryCapacity at
\* their defaults 50, 80 and 75
RecommendLocals(cat, location, preferFast) ==
    LET topStations ==
            TopStations(ScoredStations(cat, location, "normal", preferFast, <<>>), 3)
    IN  [k \in 1..Len(topStations) |->
            LET chargers == cat[topStations[k].station].chargers
                availableChgrs == AvailableIndexes(chargers, 1)
                bestCharger == BestCharger(chargers, availableChgrs)
                energyNeeded == QMul(Q(80 - 50, 100), QInt(75))
            IN  [station |-> topStations[k].station,
                 score |-> topStations[k].score,
                 components |-> topStations[k].components,
                 availableChgrs |-> availableChgrs,
                 eta |-> calculateETA(topStations[k].distance),
                 chargingTime |->
                     IF bestCharger # 0
                     THEN calculateChargingTime(50, 80, 75, chargers[bestCharger].power)
                     ELSE 30,
                 estimatedCost |->
                     IF bestCharger # 0
                     THEN calculateCost(energyNeeded, chargers[bestCharger].type)
                     ELSE QRound(QMul(energyNeeded, QInt(220)))]]

\* the recommendations built after the await (lines 265-293) from the
\* locals and the charger objects they refer to
RecommendFinish(locals, held) ==
    [k \in 1..Len(locals) |->
        [station_id |-> locals[k].station,
         score |-> locals[k].score,
         score_breakdown |-> locals[k].components,
         eta_minutes |-> locals[k].eta,
         charging_time_minutes |-> locals[k].chargingTime,
         total_time_minutes |-> locals[k].eta + locals[k].chargingTime
                                + held[locals[k].station].avg_wait_time,
         estimated_cost_clp |-> locals[k].estimatedCost,
         available_chargers |->
             [n \in 1..Len(locals[k].availableChgrs) |->
                 LET c == held[locals[k].station].chargers[locals[k].availableChgrs[n]]
                 IN  [type |-> c.type, power |-> c.power]]]]

\* the loop over stationsOnRoute from its i-th station up to the next await
\* of estimateChargingCost (line 177) or the end of the loop; the chargers
\* of a station are read (line 174) through the shallow copy of line 153
RECURSIVE CostRun(_, _, _, _, _)
CostRun(sr, i, acc, in, held) ==
    IF i > Len(sr) THEN [i |-> i, acc |-> acc, suspended |-> FALSE]
    ELSE With(CostStation([sr[i] EXCEPT !.chargers = held[sr[i].id].chargers],
                          acc, in),
              LAMBDA pass :
                  IF pass.charge
                  THEN [i |-> i + 1, acc |-> pass.acc, suspended |-> ~pass.done]
                  ELSE CostRun(sr, i + 1, acc, in, held))

\* the catalog with the status of the k-th charger of the i-th station set
SetStatus(cat, i, k, status) == [cat EXCEPT ![i].chargers[k].status = status]

AwaitStations ==
    [km : {1, 20},
     chargers : {<<Charger("fast", "available")>>,
                 <<Charger("fast", "occupied"), Charger("slow", "available")>>},
     avg_wait_time : {5}, nearby_amenities : {<<>>}]

AwaitCatalogs == UNION {[1..n -> AwaitStations] : n \in 0..MaxScoreStations}

AwaitPoints == {"recommend:263", "calculateTripCost:127", "calculateTripCost:177"}

InitAwait ==
    /\ catalog \in AwaitCatalogs
    /\ op = "none"
    /\ req = <<>>
    /\ res = <<>>

\* recommend runs to its first await: the scoring and the synchronous part
\* of every topStations.map callback
RecommendStart ==
    \E location \in SessionPlaces, preferFast \in BOOLEAN :
        /\ op = "none"
        /\ op' = "recommend:263"
        /\ req' = [tool |-> "recommend", location |-> location,
                   preferFast |-> preferFast, snapshot |-> catalog,
                   held |-> catalog, aliased |-> TRUE, feeds |-> 0]
        /\ res' = RecommendLocals(catalog, location, preferFast)
        /\ UNCHANGED catalog

\* the reasoning calls have returned: the recommendations are built
RecommendResume ==
    /\ op = "recommend:263"
    /\ op' = "recommend:done"
    /\ res' = RecommendFinish(res, req.held)
    /\ UNCHANGED <<catalog, req>>

\* calculateTripCost runs to its await of calculateRoute (line 127)
TripCostStart ==
    \E current_battery_percent \in {15, 80}, vehicle_range_km \in {30, 100} :
        /\ op = "none"
        /\ op' = "calculateTripCost:127"
        /\ req' = [tool |-> "calculateTripCost", origin |-> 0, destination |-> 23,
                   current_battery_percent |-> current_battery_percent,
                   vehicle_range_km |-> vehicle_range_km,
                   battery_capacity_kwh |-> 60, user_type |-> "individual",
                   hour |-> 18, snapshot |-> catalog,
                   held |-> <<>>, aliased |-> FALSE, feeds |-> 0]
        /\ res' = <<>>
        /\ UNCHANGED catalog

\* the inputs of the loop that do not change
CostInputs ==
    [vehicle_range_km |-> req.vehicle_range_km,
     totalDistanceKm |->
         calculateRoute(req.origin, req.destination,
                        req.hour).distance.estimated_road_km,
     battery_capacity_kwh |-> req.battery_capacity_kwh,
     user_type |-> req.user_type,
     current_battery_percent |-> QInt(req.current_battery_percent)]

\* where calculateTripCost is after a run of its loop
AfterRun(run) ==
    IF run.suspended THEN "calculateTripCost:177" ELSE "calculateTripCost:done"

\* the route is there: stations.stations is read (line 150) and the loop
\* runs to its first await
TripCostRouted ==
    /\ op = "calculateTripCost:127"
    /\ \E in \in {CostInputs} :
         LET batteryNeeded == QMul(in.totalDistanceKm, Q(100, in.vehicle_range_km))
             needsCharging ==
                 QLess(QSub(in.current_battery_percent, batteryNeeded), QInt(15))
             start == [chargingStops |-> <<>>, totalChargingCost |-> 0,
                       totalChargingTime |-> 0,
                       currentBattery |-> in.current_battery_percent]
             sr == IF needsCharging
                   THEN StationsOnRoute(catalog, req.origin, req.destination)
                   ELSE <<>>
         IN  \E run \in {CostRun(sr, 1, start, in, catalog)} :
                 /\ op' = AfterRun(run)
                 /\ res' = [sr |-> sr, i |-> run.i, acc |-> run.acc]
    /\ req' = [req EXCEPT !.held = catalog, !.aliased = TRUE]
    /\ UNCHANGED catalog

\* an estimate is there: the stop is kept and the loop runs on
TripCostEstimated ==
    /\ op = "calculateTripCost:177"
    /\ \E in \in {CostInputs} :
         \E run \in {CostRun(res.sr, res.i, res.acc, in, req.held)} :
             /\ op' = AfterRun(run)
             /\ res' = [res EXCEPT !.i = run.i, !.acc = run.acc]
    /\ UNCHANGED <<catalog, req>>

\* the feed sets the status of a charger on the charger object itself, while
\* a request is suspended
FeedInPlace ==
    \E i \in 1..Len(catalog) :
        \E k \in 1..Len(catalog[i].chargers), status \in ChargerStatuses :
            /\ op \in AwaitPoints
            /\ req.feeds < MaxFeeds
            /\ catalog[i].chargers[k].status # status
            /\ catalog' = SetStatus(catalog, i, k, status)
            /\ req' = [req EXCEPT !.feeds = @ + 1,
                                  !.held = IF req.aliased
                                           THEN SetStatus(@, i, k, status)
                                           ELSE @]
            /\ UNCHANGED <<op, res>>

\* the feed replaces the catalog by new objects, while a request is suspended
FeedReplace ==
    \E i \in 1..Len(catalog) :
        \E k \in 1..Len(catalog[i].chargers), status \in ChargerStatuses :
            /\ op \in AwaitPoints
            /\ req.feeds < MaxFeeds
            /\ catalog[i].chargers[k].status # status
            /\ catalog' = SetStatus(catalog, i, k, status)
            /\ req' = [req EXCEPT !.feeds = @ + 1, !.aliased = FALSE]
            /\ UNCHANGED <<op, res>>

\* the response is returned
AwaitReply ==
    /\ op \in {"recommend:done", "calculateTripCost:done"}
    /\ op' = "none"
    /\ req' = <<>>
    /\ res' = <<>>
    /\ UNCHANGED catalog

NextAwait ==
    \/ RecommendStart
    \/ RecommendResume
    \/ TripCostStart
    \/ TripCostRouted
    \/ TripCostEstimated
    \/ FeedInPlace
    \/ FeedReplace
    \/ AwaitReply

SpecAwait == InitAwait /\ [][NextAwait]_vars

\* the stops calculateTripCost computes from one catalog, start to end
SnapshotStops ==
    calculateTripCost(req.origin, req.destination, req.current_battery_percent,
                      req.vehicle_range_km, req.battery_capacity_kwh,
                      req.user_type, req.hour, req.snapshot).charging_stops

\* the recommendations recommend computes from one catalog, start to end
SnapshotRecommendations ==
    RecommendFinish(RecommendLocals(req.snapshot, req.location, req.preferFast),
                    req.snapshot)

\* C18: whatever the feed does while a recommend or calculateTripCost
\* request is suspended at an await, the request's result (scores,
\* available-charger lists, chosen charger type, stops, costs) is what the
\* catalog as it was when the request started gives
C18_OneSnapshot ==
    /\ op = "recommend:done" => res = SnapshotRecommendations
    /\ op = "calculateTripCost:done" => res.acc.chargingStops = SnapshotStops

\* the recommend half: its result is the snapshot's
RecommendOneSnapshot ==
    op = "recommend:done" => res = SnapshotRecommendations

\* a request the feed left alone gets the result of the handler run in one go
UndisturbedTripCost ==
    (op = "calculateTripCost:done" /\ req.feeds = 0)
        => res.acc.chargingStops = SnapshotStops

\* a recommend request during which the feed changed a status in place
RecommendDisturbed ==
    /\ op = "recommend:done"
    /\ req.feeds > 0
    /\ req.aliased
    /\ req.held # req.snapshot
    /\ Len(res) = 2

----------------------------------------------------------------------------
(* The agent loop: runAgentLoop of handlers/ev-agent.js and executeTool of  *)
(* handlers/tools/index.js.  req is the request's messages.  res holds the  *)
(* locals of runAgentLoop, the place it is at (pc), and two records of what *)
(* it did: modelCalls, one entry for every callBedrock, and executed, one   *)
(* entry for every executeTool.                                             *)

MAX_TOOL_ITERATIONS == 5

\* TOOLS.map(t => t.name) (the names of lines 395-704)
ToolNames ==
    <<"calculate_route", "calculate_eta", "find_charging_stations",
      "check_station_availability", "get_station_details",
      "estimate_charging_cost", "calculate_trip_cost", "get_user_profile",
      "get_user_vehicle", "get_user_preferences", "search_products",
      "get_promotions", "query_knowledge_base">>

\* TOOLS.find(t => t.name === toolName) (line 744): found or not
HasTool(toolName) == \E k \in 1..Len(ToolNames) : ToolNames[k] = toolName

\* the catch handing the error on: throw error
executeToolRethrow(toolName, toolInput, behaviour) ==
    IF ~HasTool(toolName)
    THEN [result |-> [error |-> <<"Tool not found", toolName>>,
                      available_tools |-> ToolNames],
          invoked |-> FALSE,
          thrown |-> FALSE]
    ELSE [result |-> behaviour.value,
          invoked |-> TRUE,
          thrown |-> behaviour.throws]

\* executeTool (lines 743-762).  behaviour is what tool.handler(toolInput)
\* does: return behaviour.value, or throw an Error with behaviour.message.
\* invoked tells that the handler was called, thrown that executeTool threw.
executeTool(toolName, toolInput, behaviour) ==
    IF ~HasTool(toolName)
    THEN [result |-> [error |-> <<"Tool not found", toolName>>,
                      available_tools |-> ToolNames],
          invoked |-> FALSE,
          thrown |-> FALSE]
    ELSE IF behaviour.throws
    THEN [result |-> [error |-> <<"Error executing", toolName,
                                  behaviour.message>>],
          invoked |-> TRUE,
          thrown |-> FALSE]
    ELSE [result |-> behaviour.value,
          invoked |-> TRUE,
          thrown |-> FALSE]

\* summarizeToolOutput (lines 297-317) for the outputs of the model
summarizeToolOutput(output) ==
    IF "error" \in DOMAIN output THEN <<"Error", output.error>>
    ELSE IF "stations" \in DOMAIN output
    THEN <<"Found stations", Len(output.stations)>>
    ELSE <<"Tool executed successfully">>

\* only the first tool_use block of the response
ToolUseBlocksFirst(content) ==
    LET all == SelectSeq(content, LAMBDA block : block.type = "tool_use")
    IN  IF all = <<>> THEN <<>> ELSE <<all[1]>>

\* claudeResponse.content.filter(block => block.type === 'tool_use') (line 171)
ToolUseBlocks(content) ==
    SelectSeq(content, LAMBDA block : block.type = "tool_use")

\* content.find(block => block.type === 'text')?.text || fallback
\* (lines 175-177, 216-219)
TextOr(content, fallback) ==
    LET texts == SelectSeq(content, LAMBDA block : block.type = "text")
    IN  IF texts # <<>> /\ texts[1].text # "" THEN texts[1].text ELSE fallback

\* iterations <= MAX_TOOL_ITERATIONS
MayIterateOnceMore(iterations) == iterations <= MAX_TOOL_ITERATIONS

\* the test of the while (line 164)
MayIterate(iterations) == iterations < MAX_TOOL_ITERATIONS

\* tool_use_id taken from the block's name
ToolResultByName(toolUse, result) ==
    [type |-> "tool_result", tool_use_id |-> toolUse.name, content |-> result]

\* the tool_result pushed for a tool_use block (lines 195-199)
ToolResult(toolUse, result) ==
    [type |-> "tool_result", tool_use_id |-> toolUse.id, content |-> result]

Text(t) == [type |-> "text", text |-> t]

ToolUse(id, name, input) ==
    [type |-> "tool_use", id |-> id, name |-> name, input |-> input]

\* the contents the language model answers with: a text, nothing, a text
\* with one tool use, two tool uses around a text (the second of a tool
\* that does not exist)
ModelContents ==
    {<<Text("Listo")>>,
     <<>>,
     <<Text("Busco"), ToolUse("tu_1", "calculate_route", "Santiago")>>,
     <<ToolUse("tu_2", "find_charging_stations", "cerca"), Text(""),
       ToolUse("tu_3", "reserve_charger", "ahora")>>}

\* what a tool's handler does with an input
HandlerBehaviours ==
    {[throws |-> FALSE, value |-> [stations |-> <<1, 2>>], message |-> ""],
     [throws |-> FALSE, value |-> [success |-> TRUE], message |-> ""],
     [throws |-> TRUE, value |-> [success |-> FALSE], message |-> "ECONNRESET"]}

InitAgent ==
    /\ catalog = <<>>
    /\ op = "none"
    /\ req = <<>>
    /\ res = <<>>

\* chat calls runAgentLoop(messages, tools) (lines 135, 159-162)
RunAgentLoop ==
    /\ op = "none"
    /\ op' = "runAgentLoop"
    /\ req' = <<[role |-> "user", content |-> <<Text("Hola")>>]>>
    /\ res' = [pc |-> "while",
               currentMessages |-> req',
               toolCalls |-> <<>>,
               iterations |-> 0,
               content |-> <<>>,
               k |-> 0,
               toolResults |-> <<>>,
               finalResponse |-> "",
               modelCalls |-> <<>>,
               executed |-> <<>>]
    /\ UNCHANGED catalog

\* one turn of the while up to its first executeTool (lines 164-181): the
\* model answers with content; without tool_use blocks the loop returns
CallBedrock ==
    /\ op = "runAgentLoop"
    /\ res.pc = "while"
    /\ MayIterate(res.iterations)
    /\ \E content \in ModelContents :
           res' = [res EXCEPT
                      !.iterations = res.iterations + 1,
                      !.content = content,
                      !.modelCalls =
                          Append(res.modelCalls,
                                 [tools |-> TRUE,
                                  messages |-> res.currentMessages,
                                  content |-> content]),
                      !.pc = IF ToolUseBlocks(content) = <<>> THEN "returned"
                             ELSE "for",
                      !.k = 1,
                      !.toolResults = <<>>,
                      !.finalResponse =
                          IF ToolUseBlocks(content) = <<>>
                          THEN TextOr(content,
                                      "Lo siento, no pude procesar tu solicitud.")
                          ELSE res.finalResponse]
    /\ UNCHANGED <<catalog, op, req>>

\* executeTool for the k-th tool_use block returns (lines 183-200); after
\* the last block the two messages are pushed (lines 202-212)
ExecuteTool ==
    /\ op = "runAgentLoop"
    /\ res.pc = "for"
    /\ \E behaviour \in HandlerBehaviours :
       \E toolUseBlocks \in {ToolUseBlocks(res.content)} :
       \E run \in {executeTool(toolUseBlocks[res.k].name,
                               toolUseBlocks[res.k].input, behaviour)} :
           LET toolUse == toolUseBlocks[res.k]
               toolCalls ==
                   Append(res.toolCalls,
                          [tool |-> toolUse.name,
                           input |-> toolUse.input,
                           output_summary |-> summarizeToolOutput(run.result)])
               toolResults ==
                   Append(res.toolResults, ToolResult(toolUse, run.result))
               executed ==
                   Append(res.executed,
                          [name |-> toolUse.name,
                           id |-> toolUse.id,
                           input |-> toolUse.input,
                           \* the handler's behaviour, when it was called
                           behaviour |-> IF run.invoked THEN <<behaviour>>
                                         ELSE <<>>,
                           result |-> run.result,
                           turn |-> res.iterations])
           IN  IF run.thrown
               THEN res' = [res EXCEPT !.pc = "thrown", !.executed = executed]
               ELSE IF res.k < Len(toolUseBlocks)
               THEN res' = [res EXCEPT !.toolCalls = toolCalls,
                                       !.toolResults = toolResults,
                                       !.executed = executed,
                                       !.k = res.k + 1]
               ELSE res' = [res EXCEPT
                               !.toolCalls = toolCalls,
                               !.toolResults = toolResults,
                               !.executed = executed,
                               !.k = 0,
                               !.pc = "while",
                               !.currentMessages =
                                   res.currentMessages
                                   \o <<[role |-> "assistant",
                                         content |-> res.content],
                                        [role |-> "user",
                                         content |-> toolResults]>>]
    /\ UNCHANGED <<catalog, op, req>>

\* the call after the while, without tools (lines 214-223)
FinalCall ==
    /\ op = "runAgentLoop"
    /\ res.pc = "while"
    /\ ~MayIterate(res.iterations)
    /\ \E content \in ModelContents :
           res' = [res EXCEPT
                      !.content = content,
                      !.modelCalls =
                          Append(res.modelCalls,
                                 [tools |-> FALSE,
                                  messages |-> res.currentMessages,
                                  content |-> content]),
                      !.pc = "returned",
                      !.finalResponse =
                          TextOr(content,
                                 "He recopilado la información. ¿En qué más puedo ayudarte?")]
    /\ UNCHANGED <<catalog, op, req>>

\* chat answers with result.finalResponse and result.toolCalls (lines 137-146)
AgentReply ==
    /\ op = "runAgentLoop"
    /\ res.pc \in {"returned", "thrown"}
    /\ op' = "none"
    /\ req' = <<>>
    /\ res' = <<>>
    /\ UNCHANGED catalog

NextAgent == RunAgentLoop \/ CallBedrock \/ ExecuteTool \/ FinalCall \/ AgentReply

\* every model call and every tool call returns
SpecAgent ==
    /\ InitAgent
    /\ [][NextAgent]_vars
    /\ WF_vars(CallBedrock)
    /\ WF_vars(ExecuteTool)
    /\ WF_vars(FinalCall)

InAgent == op = "runAgentLoop"

\* the tool_use blocks of a model response
UsesOf(content) == SelectSeq(content, LAMBDA block : block.type = "tool_use")

\* the tools executed for the t-th model response, in the order executed
ExecutedOf(t) == SelectSeq(res.executed, LAMBDA e : e.turn = t)

\* the agent loop makes at most MAX_TOOL_ITERATIONS model calls with tools
\* and at most one more, without tools, after them; every response before
\* the last one asked for tools; the loop has returned as soon as a response
\* with tools enabled has no tool_use block, with that response's text or
\* the default message
AgentCallsBounded ==
    InAgent =>
        LET n == Len(res.modelCalls)
        IN  /\ n <= MAX_TOOL_ITERATIONS + 1
            /\ \A j \in 1..n :
                   res.modelCalls[j].tools <=> j <= MAX_TOOL_ITERATIONS
            /\ \A j \in 1..(n - 1) : UsesOf(res.modelCalls[j].content) # <<>>
            /\ res.pc # "thrown"
            /\ (n > 0 /\ UsesOf(res.modelCalls[n].content) = <<>>) =>
                   res.pc = "returned"
            /\ res.pc = "returned" =>
                   /\ n > 0
                   /\ n = MAX_TOOL_ITERATIONS + 1
                          \/ UsesOf(res.modelCalls[n].content) = <<>>
                   /\ res.finalResponse
                          = TextOr(res.modelCalls[n].content,
                                   IF n = MAX_TOOL_ITERATIONS + 1
                                   THEN "He recopilado la información. ¿En qué más puedo ayudarte?"
                                   ELSE "Lo siento, no pude procesar tu solicitud.")

\* C28: runAgentLoop always returns when every model call and tool call
\* returns, after at most 5 model calls with tools and, when all 5 asked for
\* tools, exactly one more without tools: at most 6 model calls
C28_AgentLoopReturns ==
    /\ []AgentCallsBounded
    /\ (InAgent ~> (InAgent /\ res.pc = "returned"))

\* the loop returned after five responses that asked for tools and a sixth
\* call without tools
C28_Witness ==
    /\ InAgent
    /\ res.pc = "returned"
    /\ Len(res.modelCalls) = MAX_TOOL_ITERATIONS + 1
    /\ ~res.modelCalls[MAX_TOOL_ITERATIONS + 1].tools

\* C29: before the model call that follows a response with tool_use blocks,
\* exactly two messages are appended: the assistant message with that
\* response's content, then a user message with one tool_result for every
\* tool_use block, in the blocks' order and with the block's id; the tools
\* are executed in the blocks' order, and none for a response without
\* tool_use blocks
C29_ToolResultsFollow ==
    InAgent =>
        LET n == Len(res.modelCalls)
        IN  /\ \A j \in 2..n :
                   LET prev == res.modelCalls[j - 1]
                       sent == res.modelCalls[j].messages
                       before == Len(prev.messages)
                       blocks == UsesOf(prev.content)
                   IN  /\ Len(sent) = before + 2
                       /\ SubSeq(sent, 1, before) = prev.messages
                       /\ sent[before + 1]
                              = [role |-> "assistant", content |-> prev.content]
                       /\ sent[before + 2].role = "user"
                       /\ Len(sent[before + 2].content) = Len(blocks)
                       /\ \A b \in 1..Len(blocks) :
                              /\ sent[before + 2].content[b].type = "tool_result"
                              /\ sent[before + 2].content[b].tool_use_id
                                     = blocks[b].id
                              /\ sent[before + 2].content[b].content
                                     = ExecutedOf(j - 1)[b].result
            /\ \A t \in 1..n :
                   LET blocks == UsesOf(res.modelCalls[t].content)
                       done == ExecutedOf(t)
                   IN  /\ Len(done) <= Len(blocks)
                       /\ t < n => Len(done) = Len(blocks)
                       /\ \A b \in 1..Len(done) :
                              /\ done[b].name = blocks[b].name
                              /\ done[b].id = blocks[b].id
                              /\ done[b].input = blocks[b].input
            /\ \A e \in 1..Len(res.executed) : res.executed[e].turn \in 1..n

\* a model call that follows a response with two tool_use blocks
C29_Witness ==
    /\ InAgent
    /\ \E j \in 2..Len(res.modelCalls) :
           Len(UsesOf(res.modelCalls[j - 1].content)) = 2

\* C30: executeTool gives a value for every tool name and never throws: for
\* an unknown name an error object with the names of the tools, no handler
\* called; for a handler that throws an error object naming the tool;
\* otherwise what the handler returned
C30_ExecuteToolTotal ==
    InAgent =>
        /\ res.pc # "thrown"
        /\ \A k \in 1..Len(res.executed) :
               LET e == res.executed[k]
               IN  IF \A t \in 1..Len(ToolNames) : ToolNames[t] # e.name
                   THEN /\ e.behaviour = <<>>
                        /\ e.result = [error |-> <<"Tool not found", e.name>>,
                                       available_tools |-> ToolNames]
                   ELSE /\ e.behaviour # <<>>
                        /\ IF e.behaviour[1].throws
                           THEN e.result
                                    = [error |-> <<"Error executing", e.name,
                                                   e.behaviour[1].message>>]
                           ELSE e.result = e.behaviour[1].value

\* one request has executed an unknown tool, a tool whose handler threw and
\* a tool whose handler returned
C30_Witness ==
    /\ InAgent
    /\ \E k \in 1..Len(res.executed) : res.executed[k].behaviour = <<>>
    /\ \E k \in 1..Len(res.executed) :
           /\ res.executed[k].behaviour # <<>>
           /\ res.executed[k].behaviour[1].throws
    /\ \E k \in 1..Len(res.executed) :
           /\ res.executed[k].behaviour # <<>>
           /\ ~res.executed[k].behaviour[1].throws

====
